---- MODULE Spec2Model ----
(***************************************************************************)
(* gokr-rebuild-kernel: the host orchestrator (rebuildKernel) and the      *)
(* in-container build driver (indockerMain) of gokrazy/autoupdate, as one  *)
(* state machine over the staging directory (_build), its parent           *)
(* directory (../) and the container image.                                *)
(***************************************************************************)
EXTENDS Integers, Sequences, FiniteSets, TLC

\* Longest series manifest (number of listed patches) the model draws.
MaxSeriesLen == 2

----------------------------------------------------------------------------
(* Strings the code inspects character by character are sequences of      *)
(* one-character strings; paths the code takes apart with filepath.Base   *)
(* are sequences of components.                                           *)

HasSuffix(s, suffix) ==
    /\ Len(s) >= Len(suffix)
    /\ SubSeq(s, Len(s) - Len(suffix) + 1, Len(s)) = suffix

TrimSuffix(s, suffix) ==
    IF HasSuffix(s, suffix) THEN SubSeq(s, 1, Len(s) - Len(suffix)) ELSE s

Base(path) == path[Len(path)]

BuildDirSuffix == <<"/", "_", "b", "u", "i", "l", "d">>

\* rebuildkernel.go:124
InBuildDirLoose(dir) == HasSuffix(TrimSuffix(dir, <<"/">>), <<"_", "b", "u", "i", "l", "d">>)
InBuildDir(dir) == HasSuffix(TrimSuffix(dir, <<"/">>), BuildDirSuffix)

\* Working directories os.Getwd may report: /a/_build, /_build/ (one
\* trailing slash), and directories that are no staging directory:
\* /, /a, /a/x_build, /a/_build/x.
Cwds ==
    { <<"/", "a">> \o BuildDirSuffix,
      BuildDirSuffix \o <<"/">>,
      <<"/">>,
      <<"/", "a">>,
      <<"/", "a", "/", "x", "_", "b", "u", "i", "l", "d">>,
      <<"/", "a">> \o BuildDirSuffix \o <<"/", "x">> }

----------------------------------------------------------------------------
(* Patch file names.  dir is the directory part of the series entry, num  *)
(* the zero-padded number the file name starts with (so that the lexical  *)
(* order of names is the order of num), ext the extension.                *)

PatchFile(d, n, e) == [dir |-> d, num |-> n, ext |-> e]

\* The empty file name: what strings.Split yields for an empty series file.
EmptyName == PatchFile(<<>>, 0, "")

PatchPool == { PatchFile(<<>>, 1, "patch"), PatchFile(<<>>, 2, "patch") }

RECURSIVE SeqsUpTo(_, _)
SeqsUpTo(S, n) ==
    IF n = 0 THEN { <<>> }
    ELSE LET shorter == SeqsUpTo(S, n - 1)
         IN  shorter \cup { Append(s, x) : s \in { t \in shorter : Len(t) = n - 1 }, x \in S }

\* Contents of a series file, one entry per line.
SeriesFiles == SeqsUpTo(PatchPool, MaxSeriesLen)

\* rebuildkernel.go:132  strings.Split(strings.TrimSpace(series), "\n")
SplitSeries(content) == IF content = <<>> THEN <<EmptyName>> ELSE content

Range(s) == { s[i] : i \in 1..Len(s) }

----------------------------------------------------------------------------
(* The container engines of the host's search path.  Each of podman and   *)
(* docker is absent, a regular file, a symbolic link to another binary    *)
(* (a docker that is a thin podman wrapper), or an entry whose symbolic   *)
(* links cannot be resolved; nerdctl stands for an engine only the         *)
(* override flag can name.                                                *)

\* rebuildkernel.go:86
Choices == <<"podman", "docker">>

BinStates ==
    [podman : {"absent", "file", "broken"}, docker : {"absent", "file", "link"},
     nerdctl : {"absent", "file"}]

\* exec.LookPath: the entry of the search path, when there is one.
LookPath(bin, exe) == [found |-> bin[exe] # "absent", path |-> <<"usr", "bin", exe>>]

\* filepath.EvalSymlinks of a search-path entry.
EvalSymlinks(bin, exe) ==
    CASE bin[exe] = "file" -> [err |-> FALSE, path |-> <<"usr", "bin", exe>>]
      [] bin[exe] = "link" -> [err |-> FALSE, path |-> <<"usr", "libexec", "podman">>]
      [] OTHER             -> [err |-> TRUE,  path |-> <<>>]

RECURSIVE ProbeFrom(_, _)
ProbeFrom(bin, i) ==
    IF i > Len(Choices) THEN [err |-> TRUE, path |-> <<>>]
    ELSE IF ~LookPath(bin, Choices[i]).found THEN ProbeFrom(bin, i + 1)
    ELSE EvalSymlinks(bin, Choices[i])

\* A locator that prefers docker.
GetContainerExecutableDockerFirst(bin) ==
    IF LookPath(bin, "docker").found THEN EvalSymlinks(bin, "docker")
    ELSE IF LookPath(bin, "podman").found THEN EvalSymlinks(bin, "podman")
    ELSE [err |-> TRUE, path |-> <<>>]

\* rebuildkernel.go:83-99
GetContainerExecutable(bin) == ProbeFrom(bin, 1)

\* Values of -overwrite_container_executable; <<>> is the empty string.
OverrideValues == { <<>>, <<"nerdctl">> }

CrossValues == { "", "arm64", "riscv64" }

----------------------------------------------------------------------------
(* Files.  A file is its data and its permission bits; NoFile is a name   *)
(* that does not exist.                                                   *)

File(d, m) == [data |-> d, mode |-> m]

\* The files of a directory, as a function from names to content: those
\* with names in S, and those of f with those of g copied over them.
Restrict(f, S) == [n \in S |-> f[n]]
Over(f, g) == [n \in DOMAIN f \cup DOMAIN g |-> IF n \in DOMAIN g THEN g[n] ELSE f[n]]
NoFile == File("none", "none")

\* Kernel releases the upstream URL may name.
Versions == { "6.1", "6.6" }

\* Entries make modules_install may leave under lib/modules/<release>/,
\* as paths relative to that directory.
Shapes ==
    { { <<"modules.dep">> },
      { <<"modules.dep">>, <<"build">> },
      { <<"modules.dep">>, <<"build">>, <<"source">> },
      { <<"modules.dep">>, <<"build">>, <<"source">>, <<"kernel", "build">> } }

\* The modules tree and device-tree blobs next to the kernel image before
\* the first run.
OldModules == { <<"5.10", "modules.dep">> }
OldDtbs == { "bcm2708-rpi-b.dtb", "bcm2710-rpi-3-b.dtb" }

\* The vanilla flavor's table of device-tree blobs: destination name in
\* the staging directory |-> source name under arch/arm64/boot/dts/broadcom.
\* indocker.go:196-205
DtbTable ==
    [ d \in { "bcm2710-rpi-3-b.dtb", "bcm2710-rpi-3-b-plus.dtb", "bcm2710-rpi-cm3.dtb",
              "bcm2711-rpi-4-b.dtb", "bcm2711-rpi-cm4-io.dtb", "bcm2710-rpi-zero-2-w.dtb",
              "bcm2710-rpi-zero-2.dtb", "bcm2711-rpi-400.dtb" } |->
        CASE d = "bcm2710-rpi-3-b.dtb"      -> "bcm2837-rpi-3-b.dtb"
          [] d = "bcm2710-rpi-3-b-plus.dtb" -> "bcm2837-rpi-3-b-plus.dtb"
          [] d = "bcm2710-rpi-cm3.dtb"      -> "bcm2837-rpi-cm3-io3.dtb"
          [] d = "bcm2711-rpi-4-b.dtb"      -> "bcm2711-rpi-4-b.dtb"
          [] d = "bcm2711-rpi-cm4-io.dtb"   -> "bcm2711-rpi-cm4-io.dtb"
          [] d = "bcm2710-rpi-zero-2-w.dtb" -> "bcm2837-rpi-zero-2-w.dtb"
          [] d = "bcm2710-rpi-zero-2.dtb"   -> "bcm2837-rpi-zero-2-w.dtb"
          [] OTHER                          -> "bcm2711-rpi-400.dtb" ]

DtbSources == { DtbTable[d] : d \in DOMAIN DtbTable }

\* The .dtb files of arch/arm64/boot/dts/broadcom in a tree of
\* github.com/raspberrypi/linux: the fork's own names next to upstream's.
RpiDtbs == { "bcm2710-rpi-3-b.dtb", "bcm2711-rpi-4-b.dtb", "bcm2837-rpi-3-b.dtb" }

\* Entries of arch/arm64/boot/dts/overlays after `make dtbs`, as <<stem,
\* extension>>, in the lexical order of their names.
OverlayNames ==
    << <<"README", "">>, <<"disable-bt", "dtbo">>, <<"overlay_map", "dtb">>,
       <<"overlay_map", "dts">>, <<"vc4-kms-v3d", "dtbo">> >>

OverlayMap == <<"overlay_map", "dtb">>

\* An upstream archive: where it comes from, the release it unpacks to,
\* what modules_install leaves under lib/modules/<release>/, the Broadcom
\* device-tree blobs `make dtbs` produces from it (older releases lack the
\* Zero 2 W) and the entries of its overlays directory (kernel.org trees
\* have none).
Archive(r, s, d) ==
    [release |-> r, shape |-> s, dtbs |-> d, origin |-> "kernel.org", overlays |-> {}]

TagArchive(r, s, d, o) ==
    [release |-> r, shape |-> s, dtbs |-> d, origin |-> "github", overlays |-> o]

Archives ==
    { Archive(r, s, d) : r \in Versions, s \in Shapes,
                         d \in { DtbSources, DtbSources \ { "bcm2837-rpi-zero-2-w.dtb" } } }

\* Trees of the raspberrypi fork, with and without overlay_map.dtb.
TagArchives ==
    { TagArchive("6.6", { <<"modules.dep">>, <<"build">> }, RpiDtbs, o) :
        o \in { Range(OverlayNames), Range(OverlayNames) \ { OverlayMap } } }

\* The URL an archive is fetched from: the directory part and the file
\* name, the file name in pieces so that prefixes and suffixes can be
\* added and trimmed.
URL(d, f) == [dir |-> d, file |-> f]

\* The empty string as URL.
NoURL == URL("", <<>>)

URLOf(archive) ==
    IF archive.origin = "kernel.org"
    THEN URL("https://cdn.kernel.org/pub/linux/kernel/v6.x", <<"linux-", archive.release, ".tar.xz">>)
    ELSE URL("https://github.com/raspberrypi/linux/archive/refs/tags", <<"stable_", archive.release, ".tar.gz">>)

\* The directory an archive unpacks to.
TopDir(archive) ==
    IF archive.origin = "kernel.org"
    THEN <<"linux-", archive.release>>
    ELSE <<"linux-", "stable_", archive.release>>

\* indocker.go:163-166
Srcdir(flavor, latest) ==
    IF flavor = "raspberrypi"
    THEN TrimSuffix(<<"linux-">> \o latest.file, <<".tar.gz">>)
    ELSE TrimSuffix(latest.file, <<".tar.xz">>)

\* The content of a device-tree blob: the release it was built from and
\* the name it has in the source tree; of an overlays entry likewise.
DtbData(archive, name) == <<archive.release, name>>
OverlayData(archive, entry) == <<archive.release, entry[1], entry[2]>>

\* The content of a file that was created and never written.
EmptyDtb == <<"", "">>
EmptyOverlay == <<"", "", "">>

----------------------------------------------------------------------------
(* Kernel configuration files.                                             *)

\* A line CONFIG_<sym>=<val> of .config or of config.addendum.txt; "n"
\* stands for "# CONFIG_<sym> is not set".
Assign(sym, val) == [sym |-> sym, val |-> val]

\* The symbols the kernel trees define, in the order kconfig writes them.
KconfigSymbols == <<"NET", "WLAN", "SND">>

\* The symbol a symbol depends on: WLAN can be set only when NET is.
KconfigDepends == [s \in { "WLAN" } |-> "NET"]

\* What make defconfig and make ARCH=arm64 bcm2711_defconfig write.
\* indocker.go:64-75
DefconfigOutput(cmd) ==
    IF cmd = <<"make", "ARCH=arm64", "bcm2711_defconfig">>
    THEN << Assign("NET", "y"), Assign("WLAN", "y"), Assign("SND", "m") >>
    ELSE << Assign("NET", "y"), Assign("WLAN", "m"), Assign("SND", "m") >>

\* What make mod2noconfig makes of .config: every answer m becomes n.
\* indocker.go:77-84
Mod2no(config) ==
    [i \in DOMAIN config |-> IF config[i].val = "m" THEN Assign(config[i].sym, "n") ELSE config[i]]

\* The value a configuration file gives a symbol: its last assignment
\* wins; "unset" when there is none.
RECURSIVE LastValue(_, _)
LastValue(config, sym) ==
    IF config = <<>> THEN "unset"
    ELSE IF config[Len(config)].sym = sym THEN config[Len(config)].val
    ELSE LastValue(SubSeq(config, 1, Len(config) - 1), sym)

\* The value make olddefconfig settles on for a symbol of the tree: the
\* file's, unless the symbol is new (its default, n) or the symbol it
\* depends on is off (n).
Resolved(config, sym) ==
    IF LastValue(config, sym) = "unset" THEN "n"
    ELSE IF sym \in DOMAIN KconfigDepends /\ LastValue(config, KconfigDepends[sym]) \in { "n", "unset" }
    THEN "n"
    ELSE LastValue(config, sym)

\* What make olddefconfig makes of .config: one line for each symbol of
\* the tree; assignments of symbols the tree does not define are dropped.
\* indocker.go:102-107
Normalised(config) ==
    [i \in DOMAIN KconfigSymbols |-> Assign(KconfigSymbols[i], Resolved(config, KconfigSymbols[i]))]

\* The environment of a container of the image.  rebuildkernel.go:36
NominalAmbient == [GOKRAZY_IN_DOCKER |-> "1"]

\* The environments of containers started by hand: with the build
\* variables and the target set to other values.
Ambients ==
    { NominalAmbient,
      [GOKRAZY_IN_DOCKER |-> "1", KBUILD_BUILD_USER |-> "root", KBUILD_BUILD_TIMESTAMP |-> "now"],
      [GOKRAZY_IN_DOCKER |-> "1", KBUILD_BUILD_HOST |-> "laptop", ARCH |-> "x86"] }

\* config.addendum.txt of the model's staging directories.
NominalAddendum == << Assign("WLAN", "m"), Assign("SND", "y") >>

\* Other addenda: empty, assigning a symbol twice, switching off what
\* another line needs, naming a symbol the tree does not define.
Addenda ==
    { NominalAddendum,
      <<>>,
      << Assign("SND", "m"), Assign("SND", "n"), Assign("SND", "y") >>,
      << Assign("NET", "n"), Assign("WLAN", "y") >>,
      << Assign("SND", "y"), Assign("GONE", "y") >> }

NominalArchive == Archive("6.1", { <<"modules.dep">>, <<"build">>, <<"source">> }, DtbSources)

----------------------------------------------------------------------------
(* The host a run starts on.                                              *)

\* cwd: what os.Getwd reports; bin: the engines of the search path;
\* hasSeries/series: the series manifest; onHost: the patch files present
\* in the staging directory; hasAddendum, hasURL: config.addendum.txt and
\* upstream-url.txt; addendum: the content of config.addendum.txt;
\* ambient: the environment a container of the image starts with; url: the content of upstream-url.txt; archive: what
\* the URL serves; kmode: the permission bits of the kernel image the build
\* leaves in the source tree; inDocker: whether GOKRAZY_IN_DOCKER is 1;
\* flaky: whether external commands and system calls may fail for reasons
\* outside the model.
NominalEnv ==
    [ cwd         |-> <<"/", "a">> \o BuildDirSuffix,
      bin         |-> [podman |-> "file", docker |-> "absent", nerdctl |-> "absent"],
      hasSeries   |-> TRUE,
      series      |-> << PatchFile(<<>>, 1, "patch"), PatchFile(<<>>, 2, "patch") >>,
      onHost      |-> PatchPool,
      hasAddendum |-> TRUE,
      addendum    |-> NominalAddendum,
      ambient     |-> NominalAmbient,
      hasURL      |-> TRUE,
      url         |-> URLOf(NominalArchive),
      archive     |-> NominalArchive,
      kmode       |-> "0755",
      inDocker    |-> FALSE,
      flaky       |-> FALSE ]

NominalArgv == [overwrite |-> <<>>, keep |-> FALSE, cross |-> ""]

\* The content of the device-tree blobs next to the kernel image before
\* the first run.
OldBlob(names) == [n \in names |-> <<"5.10", n>>]

\* ../ before the first run: dtbs are the names of ../*.dtb, blob their
\* content.
NominalDest ==
    [ vmlinuz |-> File("old", "0644"),
      lib     |-> TRUE,
      modules |-> TRUE,
      mods    |-> OldModules,
      dtbs    |-> OldDtbs,
      blob    |-> OldBlob(OldDtbs) ]

\* No file under overlays/.
NoOverlays == [e \in {} |-> EmptyOverlay]

\* A fresh staging directory: no build result yet.  overlaysDir: whether
\* overlays/ exists; overlays: the content of its files.
EmptyStage ==
    [ vmlinuz    |-> NoFile,
      modules    |-> FALSE,
      mods       |-> {},
      dtbs       |-> {},
      blob       |-> OldBlob({}),
      overlaysDir |-> FALSE,
      overlays   |-> NoOverlays,
      dockerfile |-> [written |-> FALSE, patches |-> <<>>, cross |-> ""] ]

Start(e, a, d) == [env |-> e, argv |-> a, dest |-> d]

\* Runs from any working directory with any flags.
CwdStarts ==
    { Start([NominalEnv EXCEPT !.cwd = c], [overwrite |-> o, keep |-> k, cross |-> x], NominalDest) :
        c \in Cwds, o \in OverrideValues, k \in BOOLEAN, x \in CrossValues }

\* Runs with any engines in the search path.
EngineStarts ==
    { Start([NominalEnv EXCEPT !.bin = b], [NominalArgv EXCEPT !.overwrite = o, !.keep = k], NominalDest) :
        b \in BinStates, o \in OverrideValues, k \in BOOLEAN }

\* Runs with any of the files a run needs missing.
FileStarts ==
    { Start([NominalEnv EXCEPT !.hasSeries = hs, !.series = s, !.onHost = h,
                               !.hasAddendum = ha, !.hasURL = hu],
            NominalArgv,
            [NominalDest EXCEPT !.vmlinuz = v, !.lib = l,
                                !.modules = l, !.mods = IF l THEN OldModules ELSE {}]) :
        hs \in BOOLEAN, s \in SeriesFiles, h \in SUBSET PatchPool,
        ha \in BOOLEAN, hu \in BOOLEAN, v \in { NoFile, File("old", "0644") }, l \in BOOLEAN }

\* Runs of any archive for any target, in which any command may fail, with
\* and without device-tree blobs next to the kernel image.
BuildStarts ==
    { Start([NominalEnv EXCEPT !.archive = a, !.url = URLOf(a), !.flaky = TRUE],
            [NominalArgv EXCEPT !.cross = x],
            [NominalDest EXCEPT !.dtbs = t, !.blob = OldBlob(t)]) :
        a \in Archives, x \in { "", "arm64" }, t \in { {}, OldDtbs } }

\* Runs of any URL, the empty one included, with any permission bits of
\* the kernel image on either side.
URLStarts ==
    { Start([NominalEnv EXCEPT !.archive = a, !.url = IF empty THEN NoURL ELSE URLOf(a), !.kmode = km],
            [NominalArgv EXCEPT !.cross = x],
            [NominalDest EXCEPT !.vmlinuz = File("old", m)]) :
        a \in { NominalArchive } \cup TagArchives, empty \in BOOLEAN,
        km \in { "0644", "0755" }, x \in { "", "arm64" }, m \in { "0600", "0644" } }

\* Values of -overwrite_container_executable that name podman or docker,
\* by name or by path.
OverridePaths == { <<"podman">>, <<"opt", "bin", "podman">>, <<"usr", "bin", "docker">> }

\* Runs of an overriding engine on hosts with podman, with docker, with
\* both, or with a docker that is a link to podman.
OverrideStarts ==
    { Start([NominalEnv EXCEPT !.bin = b], [overwrite |-> o, keep |-> k, cross |-> x], NominalDest) :
        b \in { bin \in BinStates :
                   /\ bin.nerdctl = "absent"
                   /\ <<bin.podman, bin.docker>> \in { <<"file", "absent">>, <<"absent", "file">>,
                                                       <<"file", "file">>, <<"absent", "link">> } },
        o \in OverridePaths, k \in BOOLEAN, x \in { "", "arm64" } }

\* Series files that list patches kept in a subdirectory or named other
\* than *.patch.
OddSeries ==
    { << PatchFile(<<"patches">>, 3, "patch") >>,
      << PatchFile(<<>>, 1, "patch"), PatchFile(<<>>, 4, "diff") >>,
      << PatchFile(<<"patches">>, 3, "patch"), PatchFile(<<>>, 1, "patch") >> }

\* Runs with such a series, every listed file present.
SeriesStarts ==
    { Start([NominalEnv EXCEPT !.series = s, !.onHost = Range(s)], NominalArgv, NominalDest) :
        s \in OddSeries }

Starts ==
    CwdStarts \cup EngineStarts \cup FileStarts \cup BuildStarts \cup URLStarts \cup OverrideStarts
        \cup SeriesStarts

\* The archives and targets of runs that follow each other in one staging
\* directory.
RerunArchives ==
    { Archive("6.1", { <<"modules.dep">>, <<"build">>, <<"source">> }, DtbSources),
      Archive("6.6", { <<"modules.dep">>, <<"build">>, <<"kernel", "build">> }, DtbSources) }

RerunStarts ==
    { Start([NominalEnv EXCEPT !.archive = a, !.url = URLOf(a)], [NominalArgv EXCEPT !.cross = x],
            [NominalDest EXCEPT !.dtbs = t, !.blob = OldBlob(t)]) :
        a \in RerunArchives, x \in { "", "arm64" }, t \in { {}, OldDtbs } }

----------------------------------------------------------------------------
VARIABLES
    env,          \* the host the run is on
    argv,         \* the host orchestrator's flags
    dest,         \* ../ : vmlinuz, lib/modules, *.dtb
    stage,        \* the staging directory: vmlinuz, lib/modules, *.dtb, Dockerfile
    image,        \* the image tagged gokr-rebuild-kernel
    hpc,          \* where rebuildKernel is
    patches,      \* rebuildKernel's patches
    executable,   \* rebuildKernel's executable
    execName,     \* rebuildKernel's execName
    upstreamURL,  \* rebuildKernel's upstreamURL
    dockerArgs,   \* rebuildKernel's dockerArgs
    started,      \* the programs started for build and for run
    hexit,        \* exit status of the host process
    hstatus,      \* exit status of the external command the host failed on, 0 when none
    hlog,         \* what rebuildKernel did so far, in order
    dest0,        \* ../ when the run started
    allOk,        \* whether every earlier run in this staging directory succeeded
    last,         \* the run before this one in this staging directory
    dpc,          \* where indockerMain is
    dargs,        \* the driver's flags and argument
    todo,         \* the patches applyPatches has still to apply
    remaining,    \* the table entries the device-tree loop has still to copy
    queue,        \* the files the raspberrypi flavor's loops have still to copy
    applied,      \* the patches applied so far, in order
    srcdir,       \* indockerMain's srcdir
    config,       \* .config of the unpacked tree, <<>> when there is none
    dops,         \* the commands the driver started, in order
    copies,       \* the copyFile calls the driver made
    dexit,        \* exit status of the driver
    dstatus,      \* exit status of the external command the driver failed on, 0 when none
    dlog,         \* what the driver did so far, in order
    benv,         \* gokr-boot: its environment variables, flags and the bootery's reply
    labels,       \* gokr-boot: the labels of the pull request
    bpc,          \* gokr-boot: where main is
    hosts,        \* gokr-boot: main's hosts
    pending,      \* gokr-boot: the hosts the loop has still to test
    inUse,        \* gokr-boot: whether the bakeries are powered on for this run
    released,     \* gokr-boot: how often releaseBakeries was called
    gists,        \* gokr-boot: the hosts whose boot log was put in a gist
    comments,     \* gokr-boot: the hosts whose gist was commented on the pull request
    bexit,        \* gokr-boot: exit status
    blog          \* gokr-boot: what main did so far, in order

hostVars == <<hpc, patches, executable, execName, upstreamURL, dockerArgs, started, hexit, hstatus, hlog>>
driverVars == <<dpc, dargs, todo, remaining, queue, applied, srcdir, config, dops, copies, dexit, dstatus, dlog>>
bootVars == <<benv, labels, bpc, hosts, pending, inUse, released, gists, comments, bexit, blog>>
rebuildVars == <<env, argv, dest, stage, image, hostVars, dest0, allOk, last, driverVars>>
vars == <<rebuildVars, bootVars>>

NoImage == [built |-> FALSE, files |-> {}, addendum |-> <<>>, cross |-> ""]
NoArgs == [cross |-> "", flavor |-> "", latest |-> NoURL]
NoProgram == <<>>
NoRun == [ran |-> FALSE, ok |-> FALSE, url |-> NoURL, archive |-> NominalArchive, cross |-> ""]

InitFrom(starts) ==
    /\ \E s \in starts : env = s.env /\ argv = s.argv /\ dest = s.dest /\ dest0 = s.dest
    /\ allOk = TRUE
    /\ last = NoRun
    /\ stage = EmptyStage
    /\ image = NoImage
    /\ hpc = "flags"
    /\ patches = <<>>
    /\ executable = <<>>
    /\ execName = ""
    /\ upstreamURL = NoURL
    /\ dockerArgs = <<>>
    /\ started = [build |-> NoProgram, run |-> NoProgram]
    /\ hexit = -1
    /\ hstatus = 0
    /\ hlog = <<>>
    /\ dpc = "off"
    /\ dargs = NoArgs
    /\ todo = <<>>
    /\ remaining = {}
    /\ queue = <<>>
    /\ applied = <<>>
    /\ srcdir = <<>>
    /\ config = <<>>
    /\ dops = <<>>
    /\ copies = {}
    /\ dexit = -1
    /\ dstatus = 0
    /\ dlog = <<>>

\* Whether a command or system call that may fail for reasons outside the
\* model succeeds.
Outcomes == IF env.flaky THEN { TRUE, FALSE } ELSE { TRUE }

Did(step, ok) == [step |-> step, ok |-> ok]

HostSteps == { hlog[i].step : i \in 1..Len(hlog) }

\* The exit statuses an external command may fail with.
FailStatuses == { 1, 2 }

\* return err / log.Fatal(err) after a step failed; statuses: the exit
\* statuses the failing command may have had, 0 for a failure that is not
\* a command's exit.  rebuildkernel.go:303-305
HostFailWith(step, statuses) ==
    /\ hpc' = "exit"
    /\ hexit' = 1
    /\ hstatus' \in statuses
    /\ hlog' = Append(hlog, Did(step, FALSE))

HostFail(step) == HostFailWith(step, { 0 })

HostStep(step, next) ==
    /\ hpc' = next
    /\ hlog' = Append(hlog, Did(step, TRUE))
    /\ UNCHANGED <<hexit, hstatus>>

\* rebuildkernel.go:102-118
ParseFlags ==
    /\ hpc = "flags"
    /\ IF argv.cross # "" /\ argv.cross # "arm64"
       THEN HostFail("flags")
       ELSE HostStep("flags", "getwd")
    /\ UNCHANGED <<bootVars, env, argv, dest, stage, image, dest0, allOk, last, driverVars>>
    /\ UNCHANGED <<patches, executable, execName, upstreamURL, dockerArgs, started>>

\* rebuildkernel.go:120-126
CheckBuildDir ==
    /\ hpc = "getwd"
    /\ IF ~InBuildDir(env.cwd)
       THEN HostFail("getwd")
       ELSE HostStep("getwd", "series")
    /\ UNCHANGED <<bootVars, env, argv, dest, stage, image, dest0, allOk, last, driverVars>>
    /\ UNCHANGED <<patches, executable, execName, upstreamURL, dockerArgs, started>>

\* rebuildkernel.go:128-132
ReadSeries ==
    /\ hpc = "series"
    /\ IF ~env.hasSeries
       THEN HostFail("readSeries") /\ UNCHANGED patches
       ELSE HostStep("readSeries", "locate") /\ patches' = SplitSeries(env.series)
    /\ UNCHANGED <<bootVars, env, argv, dest, stage, image, dest0, allOk, last, driverVars>>
    /\ UNCHANGED <<executable, execName, upstreamURL, dockerArgs, started>>

\* rebuildkernel.go:134-142
Locate ==
    /\ hpc = "locate"
    /\ LET r == GetContainerExecutable(env.bin)
           e == IF argv.overwrite # <<>> THEN argv.overwrite ELSE r.path
       IN  IF r.err
           THEN HostFail("lookPath") /\ UNCHANGED <<executable, execName>>
           ELSE /\ HostStep("lookPath", "patches")
                /\ executable' = e
                /\ execName' = Base(e)
    /\ UNCHANGED <<bootVars, env, argv, dest, stage, image, dest0, allOk, last, driverVars>>
    /\ UNCHANGED <<patches, upstreamURL, dockerArgs, started>>

\* A find that never reports a missing file.
FindAnything(present) == [err |-> FALSE]

\* rebuildkernel.go:75-81
Find(present) == [err |-> ~present]

\* rebuildkernel.go:144-151
FindPatches ==
    /\ hpc = "patches"
    /\ IF \E i \in 1..Len(patches) : Find(patches[i] \in env.onHost).err
       THEN HostFail("findPatches")
       ELSE HostStep("findPatches", "kernel")
    /\ UNCHANGED <<bootVars, env, argv, dest, stage, image, dest0, allOk, last, driverVars>>
    /\ UNCHANGED <<patches, executable, execName, upstreamURL, dockerArgs, started>>

\* rebuildkernel.go:153-156
FindKernel ==
    /\ hpc = "kernel"
    /\ IF Find(dest.vmlinuz # NoFile).err
       THEN HostFail("findKernel")
       ELSE HostStep("findKernel", "lib")
    /\ UNCHANGED <<bootVars, env, argv, dest, stage, image, dest0, allOk, last, driverVars>>
    /\ UNCHANGED <<patches, executable, execName, upstreamURL, dockerArgs, started>>

\* rebuildkernel.go:158-161
FindLib ==
    /\ hpc = "lib"
    /\ IF Find(dest.lib).err
       THEN HostFail("findLib")
       ELSE HostStep("findLib", "addendum")
    /\ UNCHANGED <<bootVars, env, argv, dest, stage, image, dest0, allOk, last, driverVars>>
    /\ UNCHANGED <<patches, executable, execName, upstreamURL, dockerArgs, started>>

\* rebuildkernel.go:163-166
FindAddendum ==
    /\ hpc = "addendum"
    /\ IF Find(env.hasAddendum).err
       THEN HostFail("findAddendum")
       ELSE HostStep("findAddendum", "user")
    /\ UNCHANGED <<bootVars, env, argv, dest, stage, image, dest0, allOk, last, driverVars>>
    /\ UNCHANGED <<patches, executable, execName, upstreamURL, dockerArgs, started>>

\* rebuildkernel.go:168-171
CurrentUser ==
    /\ hpc = "user"
    /\ \E ok \in Outcomes :
         IF ~ok THEN HostFail("user") ELSE HostStep("user", "url")
    /\ UNCHANGED <<bootVars, env, argv, dest, stage, image, dest0, allOk, last, driverVars>>
    /\ UNCHANGED <<patches, executable, execName, upstreamURL, dockerArgs, started>>

\* rebuildkernel.go:173-176
ReadUpstreamURL ==
    /\ hpc = "url"
    /\ IF ~env.hasURL
       THEN HostFail("readURL") /\ UNCHANGED upstreamURL
       ELSE HostStep("readURL", "dockerfile") /\ upstreamURL' = env.url
    /\ UNCHANGED <<bootVars, env, argv, dest, stage, image, dest0, allOk, last, driverVars>>
    /\ UNCHANGED <<patches, executable, execName, dockerArgs, started>>

\* exec.Command(name): the path of the program to start, looked up in the
\* search path when name has no directory part.
Command(bin, name) ==
    IF Len(name) = 1
    THEN [err |-> ~LookPath(bin, name[1]).found, path |-> LookPath(bin, name[1]).path]
    ELSE [err |-> FALSE, path |-> name]

\* rebuildkernel.go:178-199
WriteDockerfile ==
    /\ hpc = "dockerfile"
    /\ \E ok \in Outcomes :
         IF ~ok
         THEN HostFail("writeDockerfile") /\ UNCHANGED stage
         ELSE /\ HostStep("writeDockerfile", "build")
              /\ stage' = [stage EXCEPT !.dockerfile =
                              [written |-> TRUE, patches |-> patches, cross |-> argv.cross]]
    /\ UNCHANGED <<bootVars, env, argv, dest, image, dest0, allOk, last, driverVars>>
    /\ UNCHANGED <<patches, executable, execName, upstreamURL, dockerArgs, started>>

\* The image a build of the staging directory's Dockerfile yields: every
\* COPY {{ $path }} /usr/src/{{ $path }} puts the patch under its own path,
\* and config.addendum.txt is copied to /usr/src.  rebuildkernel.go:16-38
BuiltImage(dockerfile) ==
    [built |-> TRUE, files |-> Range(dockerfile.patches), addendum |-> env.addendum,
     cross |-> dockerfile.cross]

\* rebuildkernel.go:201-214
DockerBuild ==
    /\ hpc = "build"
    /\ LET cmd == Command(env.bin, <<execName>>)
       IN  \E ok \in Outcomes :
             IF cmd.err \/ ~ok
             THEN /\ HostFailWith("build", IF cmd.err THEN { 0 } ELSE FailStatuses)
                  /\ UNCHANGED <<image, started>>
             ELSE /\ HostStep("build", "run")
                  /\ image' = BuiltImage(stage.dockerfile)
                  /\ started' = [started EXCEPT !.build = cmd.path]
    /\ UNCHANGED <<bootVars, env, argv, dest, stage, dest0, allOk, last, driverVars>>
    /\ UNCHANGED <<patches, executable, execName, upstreamURL, dockerArgs>>

\* A host that asks for a container of the target's platform.
RunArgsForTarget ==
    [ platform |-> IF argv.cross = "arm64" THEN "linux/arm64" ELSE "linux/amd64",
      volume   |-> env.cwd,
      rm       |-> ~argv.keep,
      userns   |-> IF execName = "podman" THEN "keep-id" ELSE "",
      image    |-> "gokr-rebuild-kernel",
      cross    |-> argv.cross,
      url      |-> upstreamURL ]

\* rebuildkernel.go:220-235
RunArgs ==
    [ platform |-> "linux/amd64",
      volume   |-> env.cwd,
      rm       |-> ~argv.keep,
      userns   |-> IF execName = "podman" THEN "keep-id" ELSE "",
      image    |-> "gokr-rebuild-kernel",
      cross    |-> argv.cross,
      url      |-> upstreamURL ]

\* The container starts: the image's entrypoint runs with the arguments of
\* the run command; -flavor keeps its default.  indocker.go:137-146
DriverArgs(args) == [cross |-> args.cross, flavor |-> "vanilla", latest |-> args.url]

\* A host that starts the run command and does not wait for it.
DockerRunWithoutWaiting ==
    /\ hpc = "run"
    /\ dockerArgs' = RunArgs
    /\ LET cmd == Command(env.bin, executable)
       IN  \E ok \in Outcomes :
             IF cmd.err \/ ~ok
             THEN /\ HostFailWith("run", IF cmd.err THEN { 0 } ELSE FailStatuses)
                  /\ UNCHANGED <<started, driverVars>>
             ELSE /\ HostStep("run", "copy")
                  /\ started' = [started EXCEPT !.run = cmd.path]
                  /\ dpc' = "main"
                  /\ dargs' = DriverArgs(RunArgs)
                  /\ UNCHANGED <<todo, remaining, queue, applied, srcdir, config, dops, copies, dexit, dstatus, dlog>>
    /\ UNCHANGED <<bootVars, env, argv, dest, stage, image, dest0, allOk, last>>
    /\ UNCHANGED <<patches, executable, execName, upstreamURL>>

\* rebuildkernel.go:216-242: the run command is started and the host waits
\* for it.
DockerRun ==
    /\ hpc = "run"
    /\ dockerArgs' = RunArgs
    /\ LET cmd == Command(env.bin, executable)
       IN  \E ok \in Outcomes :
             IF cmd.err \/ ~ok
             THEN /\ HostFailWith("run", IF cmd.err THEN { 0 } ELSE FailStatuses)
                  /\ UNCHANGED <<started, driverVars>>
             ELSE /\ hpc' = "wait"
                  /\ hlog' = Append(hlog, Did("runStart", TRUE))
                  /\ started' = [started EXCEPT !.run = cmd.path]
                  /\ dpc' = "main"
                  /\ dargs' = DriverArgs(RunArgs)
                  /\ UNCHANGED <<hexit, hstatus, todo, remaining, queue, applied, srcdir, config, dops, copies, dexit, dstatus, dlog>>
    /\ UNCHANGED <<bootVars, env, argv, dest, stage, image, dest0, allOk, last>>
    /\ UNCHANGED <<patches, executable, execName, upstreamURL>>

\* A host that goes on to reconcile whatever the container's exit status.
DockerRunExitIgnoringStatus ==
    /\ hpc = "wait"
    /\ dpc = "exit"
    /\ HostStep("run", "copy")
    /\ UNCHANGED <<bootVars, env, argv, dest, stage, image, dest0, allOk, last, driverVars>>
    /\ UNCHANGED <<patches, executable, execName, upstreamURL, dockerArgs, started>>

\* rebuildkernel.go:242-244: the run command returned.
DockerRunExit ==
    /\ hpc = "wait"
    /\ dpc = "exit"
    /\ IF dexit # 0 THEN HostFailWith("run", { dexit }) ELSE HostStep("run", "copy")
    /\ UNCHANGED <<bootVars, env, argv, dest, stage, image, dest0, allOk, last, driverVars>>
    /\ UNCHANGED <<patches, executable, execName, upstreamURL, dockerArgs, started>>

----------------------------------------------------------------------------
(* Artifact reconciliation.                                               *)

\* How a copyFile may end when commands may fail: it succeeds, os.Create
\* fails, or io.Copy fails.
CopyOutcomes == IF env.flaky THEN { "ok", "create", "copy" } ELSE { "ok" }

\* A copy that leaves the destination's permission bits as they are.
CopyFileKeepingMode(destFile, srcFile, outcome) ==
    LET created == File("empty", IF destFile = NoFile THEN "0644" ELSE destFile.mode)
    IN  CASE outcome = "create"                    -> [err |-> TRUE,  file |-> destFile]
          [] srcFile = NoFile \/ outcome = "copy"  -> [err |-> TRUE,  file |-> created]
          [] OTHER                                 -> [err |-> FALSE, file |-> File(srcFile.data, created.mode)]

\* rebuildkernel.go:48-73.  os.Create truncates an existing file and keeps
\* its permission bits; a new file gets 0644; Chmod gives the copy the
\* permission bits of src.
CopyFile(destFile, srcFile, outcome) ==
    LET created == File("empty", IF destFile = NoFile THEN "0644" ELSE destFile.mode)
    IN  CASE outcome = "create"                    -> [err |-> TRUE,  file |-> destFile]
          [] srcFile = NoFile \/ outcome = "copy"  -> [err |-> TRUE,  file |-> created]
          [] OTHER                                 -> [err |-> FALSE, file |-> File(srcFile.data, srcFile.mode)]

\* rebuildkernel.go:246-248
CopyKernel ==
    /\ hpc = "copy"
    /\ \E o \in CopyOutcomes :
         LET r == CopyFile(dest.vmlinuz, stage.vmlinuz, o)
         IN  /\ dest' = [dest EXCEPT !.vmlinuz = r.file]
             /\ IF r.err THEN HostFail("copyKernel") ELSE HostStep("copyKernel", "symlinks")
    /\ UNCHANGED <<bootVars, env, argv, stage, image, dest0, allOk, last, driverVars>>
    /\ UNCHANGED <<patches, executable, execName, upstreamURL, dockerArgs, started>>

\* A glob whose pattern lacks the release directory: lib/modules/<subdir>.
GlobModulesNoStar(mods, subdir) == { p \in mods : Len(p) = 1 /\ p[1] = subdir }

\* filepath.Glob(filepath.Join("lib/modules", "*", subdir)): the entries
\* named subdir directly under a release directory.  rebuildkernel.go:252
GlobModules(mods, subdir) == { p \in mods : Len(p) = 2 /\ p[2] = subdir }

\* rebuildkernel.go:250-262
RemoveSymlinks ==
    /\ hpc = "symlinks"
    /\ LET matches == GlobModules(stage.mods, "build") \cup GlobModules(stage.mods, "source")
       IN  \E ok \in Outcomes :
             IF ok
             THEN /\ stage' = [stage EXCEPT !.mods = @ \ matches]
                  /\ HostStep("removeSymlinks", "rmModules")
             ELSE /\ matches # {}
                  /\ \E removed \in (SUBSET matches) \ { matches } :
                       stage' = [stage EXCEPT !.mods = @ \ removed]
                  /\ HostFail("removeSymlinks")
    /\ UNCHANGED <<bootVars, env, argv, dest, image, dest0, allOk, last, driverVars>>
    /\ UNCHANGED <<patches, executable, execName, upstreamURL, dockerArgs, started>>

\* A replacement that leaves the old tree where it is.
RemoveModulesKeepingTree ==
    /\ hpc = "rmModules"
    /\ HostStep("rmModules", "cpModules")
    /\ UNCHANGED <<bootVars, env, argv, dest, stage, image, dest0, allOk, last, driverVars>>
    /\ UNCHANGED <<patches, executable, execName, upstreamURL, dockerArgs, started>>

\* rm -rf ../lib/modules.  rebuildkernel.go:264-271
RemoveModules ==
    /\ hpc = "rmModules"
    /\ \E ok \in Outcomes :
         IF ok
         THEN /\ dest' = [dest EXCEPT !.modules = FALSE, !.mods = {}]
              /\ HostStep("rmModules", "cpModules")
         ELSE /\ dest.modules
              /\ \E left \in SUBSET dest.mods : dest' = [dest EXCEPT !.mods = left]
              /\ HostFailWith("rmModules", FailStatuses)
    /\ UNCHANGED <<bootVars, env, argv, stage, image, dest0, allOk, last, driverVars>>
    /\ UNCHANGED <<patches, executable, execName, upstreamURL, dockerArgs, started>>

\* cp -r lib/modules ../lib: the tree is copied to ../lib/modules, into the
\* directory of that name when there is one.  rebuildkernel.go:272-278
CopyModules ==
    /\ hpc = "cpModules"
    /\ \E ok \in Outcomes :
         IF ok /\ stage.modules
         THEN /\ dest' = [dest EXCEPT !.modules = TRUE, !.mods = @ \cup stage.mods]
              /\ HostStep("cpModules", "rmDtbs")
         ELSE /\ \E copied \in SUBSET stage.mods, mk \in BOOLEAN :
                   /\ copied # {} => mk
                   /\ mk => stage.modules
                   /\ dest' = [dest EXCEPT !.modules = (@ \/ mk), !.mods = @ \cup copied]
              /\ HostFailWith("cpModules", FailStatuses)
    /\ UNCHANGED <<bootVars, env, argv, stage, image, dest0, allOk, last, driverVars>>
    /\ UNCHANGED <<patches, executable, execName, upstreamURL, dockerArgs, started>>

\* sh -c "rm ../*.dtb": without a match the pattern stays as it is and rm
\* fails on it.  rebuildkernel.go:280-287
RemoveDtbs ==
    /\ hpc = "rmDtbs"
    /\ \E ok \in Outcomes :
         IF ok /\ dest.dtbs # {}
         THEN /\ dest' = [dest EXCEPT !.dtbs = {}, !.blob = Restrict(@, {})]
              /\ HostStep("rmDtbs", "cpDtbs")
         ELSE /\ \E left \in ((SUBSET dest.dtbs) \ { {} }) \cup { dest.dtbs } :
                   dest' = [dest EXCEPT !.dtbs = left, !.blob = Restrict(@, left)]
              /\ HostFailWith("rmDtbs", FailStatuses)
    /\ UNCHANGED <<bootVars, env, argv, stage, image, dest0, allOk, last, driverVars>>
    /\ UNCHANGED <<patches, executable, execName, upstreamURL, dockerArgs, started>>

\* sh -c "cp *.dtb ..": without a match the pattern stays as it is and cp
\* fails on it.  rebuildkernel.go:288-296
CopyDtbs ==
    /\ hpc = "cpDtbs"
    /\ \E ok \in Outcomes :
         IF ok /\ stage.dtbs # {}
         THEN /\ dest' = [dest EXCEPT !.dtbs = @ \cup stage.dtbs, !.blob = Over(@, stage.blob)]
              /\ hpc' = "exit"
              /\ hexit' = 0
              /\ hlog' = Append(hlog, Did("cpDtbs", TRUE))
              /\ UNCHANGED hstatus
         ELSE /\ \E copied \in SUBSET stage.dtbs :
                   dest' = [dest EXCEPT !.dtbs = @ \cup copied,
                                        !.blob = Over(@, Restrict(stage.blob, copied))]
              /\ HostFailWith("cpDtbs", FailStatuses)
    /\ UNCHANGED <<bootVars, env, argv, stage, image, dest0, allOk, last, driverVars>>
    /\ UNCHANGED <<patches, executable, execName, upstreamURL, dockerArgs, started>>

----------------------------------------------------------------------------
(* The in-container build driver.                                         *)

\* The driver's external commands among its steps.
DriverCommands ==
    { "untar", "patch", "defconfig", "mod2noconfig", "olddefconfig", "make", "modules_install" }

\* A driver that exits with the status of the command it failed on.
DriverFailPropagating(step, statuses) ==
    /\ dpc' = "exit"
    /\ dstatus' \in statuses
    /\ dexit' = IF dstatus' # 0 THEN dstatus' ELSE 1
    /\ dlog' = Append(dlog, Did(step, FALSE))

\* log.Fatal after a step failed; statuses as for the host.
DriverFailWith(step, statuses) ==
    /\ dpc' = "exit"
    /\ dexit' = 1
    /\ dstatus' \in statuses
    /\ dlog' = Append(dlog, Did(step, FALSE))

DriverFail(step) == DriverFailWith(step, { 0 })

DriverStep(step, next) ==
    /\ dpc' = next
    /\ dlog' = Append(dlog, Did(step, TRUE))
    /\ UNCHANGED <<dexit, dstatus>>

\* A driver that ignores a failing command.
RunStepIgnoringFailure(step, next) ==
    \E ok \in Outcomes :
        /\ dpc' = next
        /\ dlog' = Append(dlog, Did(step, ok))
        /\ UNCHANGED <<dexit, dstatus>>

\* A driver that starts a failing command again.
RunStepRetrying(step, next) ==
    \E ok \in Outcomes :
        /\ dpc' = IF ok THEN next ELSE dpc
        /\ dlog' = Append(dlog, Did(step, ok))
        /\ UNCHANGED <<dexit, dstatus>>

\* What one step of the driver does: it fails and the driver dies, or it
\* succeeds and the driver goes on.
RunStep(step, next) ==
    \E ok \in Outcomes :
        IF ok THEN DriverStep(step, next)
        ELSE DriverFailWith(step, IF step \in DriverCommands THEN FailStatuses ELSE { 0 })

\* What the driver starts: an external command with its arguments, the
\* file it is given, its working directory and its environment; an HTTP
\* download.
Op(kind, a, f, d, e) == [op |-> kind, argv |-> a, file |-> f, dir |-> d, env |-> e]
Exec(a, f, d, e) == Op("exec", a, f, d, e)
Get(latest) == Op("get", <<latest.dir>>, latest.file, <<>>, env.ambient)

\* A call of copyFile.
Copy(dst, src) == [dst |-> dst, src |-> src]

\* os.Setenv: an environment with a variable set, whatever it was.
Setenv(environ, name, value) == Over(environ, [n \in { name } |-> value])

\* The driver's environment once indocker.go:177-181 has run: what the
\* container started with, and ARCH and CROSS_COMPILE for arm64.
CrossEnv(cross) ==
    IF cross = "arm64"
    THEN Setenv(Setenv(env.ambient, "ARCH", "arm64"), "CROSS_COMPILE", "aarch64-linux-gnu-")
    ELSE env.ambient

\* indocker.go:110-112
KbuildEnv ==
    [ KBUILD_BUILD_USER      |-> "gokrazy",
      KBUILD_BUILD_HOST      |-> "docker",
      KBUILD_BUILD_TIMESTAMP |-> "Wed Mar  1 20:57:29 UTC 2017" ]

\* A driver that puts the pinned variables in front of os.Environ().
MakeEnvAmbientLast(cross) == Over(KbuildEnv, CrossEnv(cross))

\* append(os.Environ(), "KBUILD_BUILD_USER=gokrazy", ...): of two entries
\* for one variable os/exec hands the command the last.  indocker.go:109-113
MakeEnv(cross) == Over(CrossEnv(cross), KbuildEnv)

\* indocker.go:64-69
DefconfigCmd(flavor) ==
    IF flavor = "raspberrypi"
    THEN <<"make", "ARCH=arm64", "bcm2711_defconfig">>
    ELSE <<"make", "defconfig">>

\* indocker.go:114-117; -jN stands for the number of CPUs.
MakeCmd(cross) ==
    IF cross = "arm64"
    THEN <<"make", "Image.gz", "dtbs", "modules", "-jN">>
    ELSE <<"make", "bzImage", "modules", "-jN">>

\* indocker.go:125
ModulesInstallCmd == <<"make", "INSTALL_MOD_PATH=/tmp/buildresult", "modules_install", "-jN">>

\* indocker.go:145-149
DriverMain ==
    /\ dpc = "main"
    /\ IF dargs.latest = NoURL
       THEN DriverFail("syntax")
       ELSE dpc' = "download" /\ UNCHANGED <<dexit, dstatus, dlog>>
    /\ UNCHANGED <<bootVars, env, argv, dest, stage, image, hostVars, dest0, allOk, last>>
    /\ UNCHANGED <<dargs, todo, remaining, queue, applied, srcdir, config, dops, copies>>

\* indocker.go:17-35, 150-153
Download ==
    /\ dpc = "download"
    /\ RunStep("download", "untar")
    /\ dops' = Append(dops, Get(dargs.latest))
    /\ UNCHANGED <<bootVars, env, argv, dest, stage, image, hostVars, dest0, allOk, last>>
    /\ UNCHANGED <<dargs, todo, remaining, queue, applied, srcdir, config, copies>>

\* indocker.go:155-161
Untar ==
    /\ dpc = "untar"
    /\ RunStep("untar", "glob")
    /\ dops' = Append(dops, Exec(<<"tar", "xf">>, dargs.latest.file, <<>>, env.ambient))
    /\ UNCHANGED <<bootVars, env, argv, dest, stage, image, hostVars, dest0, allOk, last>>
    /\ UNCHANGED <<dargs, todo, remaining, queue, applied, srcdir, config, copies>>

\* The files of a set of patch files in the lexical order of their names.
RECURSIVE Sorted(_)
Sorted(files) ==
    IF files = {} THEN <<>>
    ELSE LET first == CHOOSE f \in files : \A g \in files : f.num <= g.num
         IN  <<first>> \o Sorted(files \ { first })

\* filepath.Glob("*.patch") in /usr/src: the files directly in the working
\* directory whose names end in .patch, sorted.  indocker.go:38
GlobPatches(files) == Sorted({ f \in files : f.dir = <<>> /\ f.ext = "patch" })

\* indocker.go:163-168, 37-41
StartPatches ==
    /\ dpc = "glob"
    /\ srcdir' = Srcdir(dargs.flavor, dargs.latest)
    /\ todo' = GlobPatches(image.files)
    /\ dpc' = "patch"
    /\ UNCHANGED <<bootVars, env, argv, dest, stage, image, hostVars, dest0, allOk, last>>
    /\ UNCHANGED <<dargs, remaining, queue, applied, config, dops, dexit, dstatus, dlog, copies>>

\* Whether srcdir is the directory the archive was unpacked to.
SrcdirExists == srcdir = TopDir(env.archive)

\* A driver that skips a patch that does not apply and goes on with the
\* next.
ApplyPatchSkippingFailed ==
    /\ dpc = "patch"
    /\ todo # <<>>
    /\ dops' = Append(dops, Exec(<<"patch", "-p1">>, <<>>, srcdir, env.ambient))
    /\ \E ok \in Outcomes :
         /\ dpc' = "patch"
         /\ dlog' = Append(dlog, Did("patch", ok /\ SrcdirExists))
         /\ applied' = IF ok /\ SrcdirExists THEN Append(applied, Head(todo)) ELSE applied
         /\ todo' = Tail(todo)
    /\ UNCHANGED <<bootVars, env, argv, dest, stage, image, hostVars, dest0, allOk, last>>
    /\ UNCHANGED <<dargs, remaining, queue, srcdir, config, copies, dexit, dstatus>>

\* indocker.go:42-58: patch -p1 of the next patch, with srcdir as its
\* working directory; the command cannot start when srcdir does not exist.
ApplyPatch ==
    /\ dpc = "patch"
    /\ todo # <<>>
    /\ dops' = Append(dops, Exec(<<"patch", "-p1">>, <<>>, srcdir, env.ambient))
    /\ IF ~SrcdirExists
       THEN DriverFail("patch") /\ UNCHANGED <<applied, todo>>
       ELSE \E ok \in Outcomes :
              IF ok
              THEN /\ DriverStep("patch", "patch")
                   /\ applied' = Append(applied, Head(todo))
                   /\ todo' = Tail(todo)
              ELSE /\ DriverFailWith("patch", FailStatuses)
                   /\ UNCHANGED <<applied, todo>>
    /\ UNCHANGED <<bootVars, env, argv, dest, stage, image, hostVars, dest0, allOk, last>>
    /\ UNCHANGED <<dargs, remaining, queue, srcdir, config, copies>>

\* indocker.go:60, 173-181
Chdir ==
    /\ dpc = "patch"
    /\ todo = <<>>
    /\ IF ~SrcdirExists THEN DriverFail("chdir") ELSE RunStep("chdir", "defconfig")
    /\ UNCHANGED <<bootVars, env, argv, dest, stage, image, hostVars, dest0, allOk, last>>
    /\ UNCHANGED <<dargs, todo, remaining, queue, applied, srcdir, config, dops, copies>>

\* indocker.go:64-75
Defconfig ==
    /\ dpc = "defconfig"
    /\ RunStep("defconfig", "mod2noconfig")
    /\ dops' = Append(dops, Exec(DefconfigCmd(dargs.flavor), <<>>, srcdir, CrossEnv(dargs.cross)))
    /\ config' = IF dpc' = "mod2noconfig" THEN DefconfigOutput(DefconfigCmd(dargs.flavor)) ELSE config
    /\ UNCHANGED <<bootVars, env, argv, dest, stage, image, hostVars, dest0, allOk, last>>
    /\ UNCHANGED <<dargs, todo, remaining, queue, applied, srcdir, copies>>

\* A driver that does not look at the result of make mod2noconfig.
Mod2noconfigUnchecked ==
    /\ dpc = "mod2noconfig"
    /\ \E ok \in Outcomes :
         /\ dpc' = "addendum"
         /\ dlog' = Append(dlog, Did("mod2noconfig", ok))
         /\ config' = IF ok THEN Mod2no(config) ELSE config
    /\ dops' = Append(dops, Exec(<<"make", "mod2noconfig">>, <<>>, srcdir, CrossEnv(dargs.cross)))
    /\ UNCHANGED <<bootVars, env, argv, dest, stage, image, hostVars, dest0, allOk, last>>
    /\ UNCHANGED <<dargs, todo, remaining, queue, applied, srcdir, copies, dexit, dstatus>>

\* indocker.go:77-84
Mod2noconfig ==
    /\ dpc = "mod2noconfig"
    /\ RunStep("mod2noconfig", "addendum")
    /\ dops' = Append(dops, Exec(<<"make", "mod2noconfig">>, <<>>, srcdir, CrossEnv(dargs.cross)))
    /\ config' = IF dpc' = "addendum" THEN Mod2no(config) ELSE config
    /\ UNCHANGED <<bootVars, env, argv, dest, stage, image, hostVars, dest0, allOk, last>>
    /\ UNCHANGED <<dargs, todo, remaining, queue, applied, srcdir, copies>>

\* A driver that writes the addendum in front of what .config holds.
AppendedInFront(file, addendum) == addendum \o file

\* What appending the addendum makes of .config (O_APPEND).  indocker.go:86-100
Appended(file, addendum) == file \o addendum

\* indocker.go:86-100: .config is opened for appending, the addendum is
\* read from /usr/src/config.addendum.txt and written to it.
AppendAddendum ==
    /\ dpc = "addendum"
    /\ RunStep("addendum", "olddefconfig")
    /\ config' = IF dpc' = "olddefconfig" THEN Appended(config, image.addendum) ELSE config
    /\ UNCHANGED <<bootVars, env, argv, dest, stage, image, hostVars, dest0, allOk, last>>
    /\ UNCHANGED <<dargs, todo, remaining, queue, applied, srcdir, dops, copies>>

\* indocker.go:102-107
Olddefconfig ==
    /\ dpc = "olddefconfig"
    /\ RunStep("olddefconfig", "make")
    /\ dops' = Append(dops, Exec(<<"make", "olddefconfig">>, <<>>, srcdir, CrossEnv(dargs.cross)))
    /\ config' = IF dpc' = "make" THEN Normalised(config) ELSE config
    /\ UNCHANGED <<bootVars, env, argv, dest, stage, image, hostVars, dest0, allOk, last>>
    /\ UNCHANGED <<dargs, todo, remaining, queue, applied, srcdir, copies>>

\* indocker.go:109-123
Make ==
    /\ dpc = "make"
    /\ RunStep("make", "modules_install")
    /\ dops' = Append(dops, Exec(MakeCmd(dargs.cross), <<>>, srcdir, MakeEnv(dargs.cross)))
    /\ UNCHANGED <<bootVars, env, argv, dest, stage, image, hostVars, dest0, allOk, last>>
    /\ UNCHANGED <<dargs, todo, remaining, queue, applied, srcdir, config, copies>>

\* What make modules_install of an archive leaves under lib/modules.
Installed(archive) == { <<archive.release>> \o p : p \in archive.shape }

\* make INSTALL_MOD_PATH=/tmp/buildresult modules_install.  indocker.go:125-131
ModulesInstall ==
    /\ dpc = "modules_install"
    /\ dops' = Append(dops, Exec(ModulesInstallCmd, <<>>, srcdir, MakeEnv(dargs.cross)))
    /\ \E ok \in Outcomes :
         IF ok
         THEN /\ stage' = [stage EXCEPT !.modules = TRUE, !.mods = @ \cup Installed(env.archive)]
              /\ DriverStep("modules_install", "image")
         ELSE /\ \E some \in SUBSET Installed(env.archive) :
                   stage' = [stage EXCEPT !.modules = (@ \/ some # {}), !.mods = @ \cup some]
              /\ DriverFailWith("modules_install", FailStatuses)
    /\ UNCHANGED <<bootVars, env, argv, dest, image, hostVars, dest0, allOk, last>>
    /\ UNCHANGED <<dargs, todo, remaining, queue, applied, srcdir, config, copies>>

\* A driver that takes the arm64 image whatever the cross selector.
ImagePathArm64(cross) == "arch/arm64/boot/Image"

\* The path of the kernel image in the source tree.  indocker.go:189, 238
ImagePath(cross) == IF cross = "arm64" THEN "arch/arm64/boot/Image" ELSE "arch/x86/boot/bzImage"

\* The kernel image the build leaves in the source tree.
BuiltKernel(cross, archive, mode) == File(ImagePath(cross) \o " " \o archive.release, mode)

\* The .dtb files of arch/arm64/boot/dts/broadcom in the lexical order of
\* their names.
DtbOrder ==
    << "bcm2710-rpi-3-b.dtb", "bcm2711-rpi-4-b.dtb", "bcm2711-rpi-400.dtb",
       "bcm2711-rpi-cm4-io.dtb", "bcm2837-rpi-3-b-plus.dtb", "bcm2837-rpi-3-b.dtb",
       "bcm2837-rpi-cm3-io3.dtb", "bcm2837-rpi-zero-2-w.dtb" >>

\* filepath.Glob("arch/arm64/boot/dts/broadcom/*.dtb").  indocker.go:213
GlobDtbs(archive) ==
    LET Built(n) == n \in archive.dtbs
    IN  SelectSeq(DtbOrder, Built)

\* filepath.Glob("arch/arm64/boot/dts/overlays/*.dtbo").  indocker.go:223
GlobDtbos(archive) ==
    LET IsDtbo(e) == e \in archive.overlays /\ e[2] = "dtbo"
    IN  SelectSeq(OverlayNames, IsDtbo)

\* An overlay list without overlay_map.dtb.
DtbosWithoutMap(archive) == GlobDtbos(archive)

\* indocker.go:223-227
Dtbos(archive) == Append(GlobDtbos(archive), OverlayMap)

\* The name of an overlays entry.
EntryName(e) == e[1] \o "." \o e[2]

\* indocker.go:188-193, 211-216, 237-241
CopyImage ==
    /\ dpc = "image"
    /\ copies' = copies \cup { Copy("/tmp/buildresult/vmlinuz", ImagePath(dargs.cross)) }
    /\ \E o \in CopyOutcomes :
         LET r == CopyFile(stage.vmlinuz, BuiltKernel(dargs.cross, env.archive, env.kmode), o)
         IN  /\ stage' = [stage EXCEPT !.vmlinuz = r.file]
             /\ IF r.err
                THEN DriverFail("image") /\ UNCHANGED <<remaining, queue>>
                ELSE IF dargs.cross = "arm64" /\ dargs.flavor = "vanilla"
                THEN DriverStep("image", "dtbs") /\ remaining' = DOMAIN DtbTable /\ UNCHANGED queue
                ELSE IF dargs.cross = "arm64" /\ dargs.flavor = "raspberrypi"
                THEN DriverStep("image", "rpidtbs") /\ queue' = GlobDtbs(env.archive) /\ UNCHANGED remaining
                ELSE /\ dpc' = "exit"
                     /\ dexit' = 0
                     /\ dlog' = Append(dlog, Did("image", TRUE))
                     /\ UNCHANGED <<dstatus, remaining, queue>>
    /\ UNCHANGED <<bootVars, env, argv, dest, image, hostVars, dest0, allOk, last>>
    /\ UNCHANGED <<dargs, todo, applied, srcdir, config, dops>>

\* A copyFile that appends to a destination that exists.
WrittenAppending(blob, name, data, missing, outcome, empty) ==
    IF outcome = "create" THEN blob
    ELSE [n \in DOMAIN blob \cup { name } |->
            IF n # name THEN blob[n]
            ELSE IF missing \/ outcome = "copy" THEN empty
            ELSE IF name \in DOMAIN blob THEN blob[name] \o data ELSE data]

\* The content of file name of a directory after a copyFile to it ended
\* with outcome, from a source with content data that is missing or not.
Written(blob, name, data, missing, outcome, empty) ==
    IF outcome = "create" THEN blob
    ELSE [n \in DOMAIN blob \cup { name } |->
            IF n # name THEN blob[n]
            ELSE IF missing \/ outcome = "copy" THEN empty ELSE data]

\* A loop over the table that goes on after a copy whose source is
\* missing.
CopyDtbSkippingMissing ==
    /\ dpc = "dtbs"
    /\ remaining # {}
    /\ \E d \in remaining, o \in CopyOutcomes :
         LET missing == DtbTable[d] \notin env.archive.dtbs
         IN  /\ stage' = [stage EXCEPT
                            !.dtbs = IF o = "create" THEN @ ELSE @ \cup { d },
                            !.blob = Written(@, d, DtbData(env.archive, DtbTable[d]), missing, o, EmptyDtb)]
             /\ remaining' = remaining \ { d }
             /\ copies' = copies \cup { Copy("/tmp/buildresult/" \o d,
                                               "arch/arm64/boot/dts/broadcom/" \o DtbTable[d]) }
             /\ IF ~missing /\ o # "ok" THEN DriverFail("dtb") ELSE DriverStep("dtb", "dtbs")
    /\ UNCHANGED <<bootVars, env, argv, dest, image, hostVars, dest0, allOk, last>>
    /\ UNCHANGED <<dargs, todo, queue, applied, srcdir, config, dops>>

\* indocker.go:196-209: one iteration of the loop over the table, in any
\* order.  os.Create makes the destination before the source is opened.
CopyDtb ==
    /\ dpc = "dtbs"
    /\ remaining # {}
    /\ \E d \in remaining, o \in CopyOutcomes :
         LET missing == DtbTable[d] \notin env.archive.dtbs
         IN  /\ stage' = [stage EXCEPT
                            !.dtbs = IF o = "create" THEN @ ELSE @ \cup { d },
                            !.blob = Written(@, d, DtbData(env.archive, DtbTable[d]), missing, o, EmptyDtb)]
             /\ remaining' = remaining \ { d }
             /\ copies' = copies \cup { Copy("/tmp/buildresult/" \o d,
                                               "arch/arm64/boot/dts/broadcom/" \o DtbTable[d]) }
             /\ IF missing \/ o # "ok" THEN DriverFail("dtb") ELSE DriverStep("dtb", "dtbs")
    /\ UNCHANGED <<bootVars, env, argv, dest, image, hostVars, dest0, allOk, last>>
    /\ UNCHANGED <<dargs, todo, queue, applied, srcdir, config, dops>>

\* indocker.go:217-221: one iteration of the loop over the globbed .dtb
\* files.
CopyRpiDtb ==
    /\ dpc = "rpidtbs"
    /\ queue # <<>>
    /\ \E o \in CopyOutcomes :
         LET fn == Head(queue)
         IN  /\ stage' = [stage EXCEPT
                            !.dtbs = IF o = "create" THEN @ ELSE @ \cup { fn },
                            !.blob = Written(@, fn, DtbData(env.archive, fn), FALSE, o, EmptyDtb)]
             /\ queue' = Tail(queue)
             /\ copies' = copies \cup { Copy("/tmp/buildresult/" \o fn,
                                               "arch/arm64/boot/dts/broadcom/" \o fn) }
             /\ IF o # "ok" THEN DriverFail("dtb") ELSE DriverStep("dtb", "rpidtbs")
    /\ UNCHANGED <<bootVars, env, argv, dest, image, hostVars, dest0, allOk, last>>
    /\ UNCHANGED <<dargs, todo, remaining, applied, srcdir, config, dops>>

\* indocker.go:223-230
MkdirOverlays ==
    /\ dpc = "rpidtbs"
    /\ queue = <<>>
    /\ \E ok \in Outcomes :
         IF ok
         THEN /\ DriverStep("mkdir", "overlays")
              /\ stage' = [stage EXCEPT !.overlaysDir = TRUE]
              /\ queue' = Dtbos(env.archive)
         ELSE /\ DriverFail("mkdir")
              /\ UNCHANGED <<stage, queue>>
    /\ UNCHANGED <<bootVars, env, argv, dest, image, hostVars, dest0, allOk, last>>
    /\ UNCHANGED <<dargs, todo, remaining, applied, srcdir, config, dops, copies>>

\* indocker.go:231-235: one iteration of the loop over the overlays.
CopyOverlay ==
    /\ dpc = "overlays"
    /\ queue # <<>>
    /\ \E o \in CopyOutcomes :
         LET fn == Head(queue)
             missing == fn \notin env.archive.overlays
         IN  /\ stage' = [stage EXCEPT
                            !.overlays = Written(@, fn, OverlayData(env.archive, fn), missing, o, EmptyOverlay)]
             /\ queue' = Tail(queue)
             /\ copies' = copies \cup { Copy("/tmp/buildresult/overlays/" \o EntryName(fn),
                                               "arch/arm64/boot/dts/overlays/" \o EntryName(fn)) }
             /\ IF missing \/ o # "ok" THEN DriverFail("overlay") ELSE DriverStep("overlay", "overlays")
    /\ UNCHANGED <<bootVars, env, argv, dest, image, hostVars, dest0, allOk, last>>
    /\ UNCHANGED <<dargs, todo, remaining, applied, srcdir, config, dops>>

\* indocker.go:242: indockerMain returns.
DriverDone ==
    /\ \/ dpc = "dtbs" /\ remaining = {}
       \/ dpc = "overlays" /\ queue = <<>>
    /\ dpc' = "exit"
    /\ dexit' = 0
    /\ UNCHANGED <<bootVars, env, argv, dest, stage, image, hostVars, dest0, allOk, last>>
    /\ UNCHANGED <<dargs, todo, remaining, queue, applied, srcdir, config, dops, dstatus, dlog, copies>>

----------------------------------------------------------------------------
\* The processes main may start.  rebuildkernel.go:299-307

\* Values of the driver's -flavor.
FlavorValues == { "vanilla", "raspberrypi", "debian" }

\* The driver started by hand in a container of the image (GOKRAZY_IN_DOCKER
\* is 1) with any flags, for any archive.
InDockerStarts ==
    { [archive |-> a, flaky |-> f, addendum |-> NominalAddendum, ambient |-> NominalAmbient,
       args |-> [cross |-> x, flavor |-> fl, latest |-> IF empty THEN NoURL ELSE URLOf(a)]] :
        a \in { NominalArchive, Archive("6.1", { <<"modules.dep">> }, DtbSources \ { "bcm2837-rpi-zero-2-w.dtb" }) }
                 \cup TagArchives,
        f \in BOOLEAN, x \in CrossValues, fl \in FlavorValues, empty \in BOOLEAN }

\* The driver run for each target with any config.addendum.txt in the
\* image and any environment.
ConfigStarts ==
    { [archive |-> IF fl = "raspberrypi" THEN CHOOSE a \in TagArchives : TRUE ELSE NominalArchive,
       flaky |-> FALSE, addendum |-> ad, ambient |-> am,
       args |-> [cross |-> x, flavor |-> fl,
                 latest |-> URLOf(IF fl = "raspberrypi" THEN CHOOSE a \in TagArchives : TRUE ELSE NominalArchive)]] :
        x \in { "", "arm64" }, fl \in { "vanilla", "raspberrypi" }, ad \in Addenda,
        am \in Ambients }

InitInDockerFrom(starts) ==
    /\ \E s \in starts :
         /\ env = [NominalEnv EXCEPT !.archive = s.archive, !.url = URLOf(s.archive),
                                     !.addendum = s.addendum, !.ambient = s.ambient,
                                     !.inDocker = TRUE, !.flaky = s.flaky]
         /\ dargs = s.args
         /\ image = BuiltImage([written |-> TRUE, patches |-> NominalEnv.series, cross |-> s.args.cross])
    /\ argv = NominalArgv
    /\ dest = NominalDest
    /\ dest0 = NominalDest
    /\ allOk = TRUE
    /\ last = NoRun
    /\ stage = EmptyStage
    /\ hpc = "none"
    /\ patches = <<>>
    /\ executable = <<>>
    /\ execName = ""
    /\ upstreamURL = NoURL
    /\ dockerArgs = <<>>
    /\ started = [build |-> NoProgram, run |-> NoProgram]
    /\ hexit = -1
    /\ hstatus = 0
    /\ hlog = <<>>
    /\ dpc = "main"
    /\ todo = <<>>
    /\ remaining = {}
    /\ queue = <<>>
    /\ applied = <<>>
    /\ srcdir = <<>>
    /\ config = <<>>
    /\ dops = <<>>
    /\ copies = {}
    /\ dexit = -1
    /\ dstatus = 0
    /\ dlog = <<>>

InitInDocker == InitInDockerFrom(InDockerStarts \cup ConfigStarts)

----------------------------------------------------------------------------
(* gokr-boot: boot-tests a pull request on the bakeries.                  *)

\* The labels -require_label and -set_label name in the model's runs.
RequireLabel == "please-boot"
SetLabel == "boot-tested"

\* What the bootery may reply to usebakeries.
Replies == { <<>>, <<"bakery1">>, <<"bakery1", "bakery2">> }

\* The environment variables cienv reads (cred: user and token are set),
\* the flags, and what the bootery replies to usebakeries.
BootEnvs ==
    [ cred         : BOOLEAN,
      slug         : { <<>>, <<"kernel">>, <<"gokrazy", "kernel">> },
      pullRequest  : { "", "false", "12" },
      booteryURL   : { "", "https://bootery/testboot" },
      requireLabel : { "", RequireLabel },
      setLabel     : { "", SetLabel },
      updateRoot   : BOOLEAN,
      reply        : Replies ]

NominalBootEnv ==
    [ cred |-> TRUE, slug |-> <<"gokrazy", "kernel">>, pullRequest |-> "12",
      booteryURL |-> "https://bootery/testboot", requireLabel |-> RequireLabel,
      setLabel |-> SetLabel, updateRoot |-> FALSE, reply |-> <<"bakery1", "bakery2">> ]

\* gokr-boot is not run.
BootOff ==
    /\ benv = NominalBootEnv
    /\ labels = {}
    /\ bpc = "off"
    /\ hosts = <<>>
    /\ pending = <<>>
    /\ inUse = FALSE
    /\ released = 0
    /\ gists = <<>>
    /\ comments = <<>>
    /\ bexit = -1
    /\ blog = <<>>

\* gokr-boot starts, with runs that differ in one part of the environment
\* or in the flags, for a pull request with or without the required label.
BootStart ==
    /\ benv \in { e \in BootEnvs :
                    Cardinality({ f \in DOMAIN e \ { "updateRoot", "reply" } : e[f] # NominalBootEnv[f] }) <= 1 }
    /\ labels \in { {}, { RequireLabel }, { RequireLabel, SetLabel } }
    /\ bpc = "start"
    /\ hosts = <<>>
    /\ pending = <<>>
    /\ inUse = FALSE
    /\ released = 0
    /\ gists = <<>>
    /\ comments = <<>>
    /\ bexit = -1
    /\ blog = <<>>

\* log.Fatal: the process exits with status 1; os.Exit runs no deferred
\* function.
BootFatal(step) ==
    /\ bpc' = "exit"
    /\ bexit' = 1
    /\ blog' = Append(blog, Did(step, FALSE))

BootStep(step, next) ==
    /\ bpc' = next
    /\ blog' = Append(blog, Did(step, TRUE))
    /\ UNCHANGED bexit

\* The package's variable initializers and main up to the GitHub client.
\* boot.go:238-279, cienv
BootMain ==
    /\ bpc = "start"
    /\ IF \/ ~benv.cred \/ benv.slug = <<>> \/ benv.pullRequest = ""
          \/ benv.booteryURL = "" \/ benv.requireLabel = "" \/ benv.setLabel = ""
          \/ Len(benv.slug) # 2
          \/ benv.pullRequest \notin { "12" }
       THEN BootFatal("main")
       ELSE BootStep("main", "ensureLabel")
    /\ UNCHANGED <<rebuildVars, benv, labels, hosts, pending, inUse, released, gists, comments>>

\* boot.go:185-196, 281-285: without the required label, or when the labels
\* cannot be listed, main returns and the exit status is 0.
EnsureLabel ==
    /\ bpc = "ensureLabel"
    /\ \E ok \in BOOLEAN :
         IF ok /\ benv.requireLabel \in labels
         THEN BootStep("ensureLabel", "useBakeries")
         ELSE /\ bpc' = "exit"
              /\ bexit' = 0
              /\ blog' = Append(blog, Did("ensureLabel", FALSE))
    /\ UNCHANGED <<rebuildVars, benv, labels, hosts, pending, inUse, released, gists, comments>>

\* boot.go:93-125, 291-301: when the request fails the bakeries may or may
\* not have been powered on.
UseBakeries ==
    /\ bpc = "useBakeries"
    /\ \E ok \in BOOLEAN :
         IF ok
         THEN /\ BootStep("useBakeries", "loop")
              /\ hosts' = benv.reply
              /\ pending' = benv.reply
              /\ inUse' = TRUE
         ELSE /\ BootFatal("useBakeries")
              /\ inUse' \in BOOLEAN
              /\ UNCHANGED <<hosts, pending>>
    /\ UNCHANGED <<rebuildVars, benv, labels, released, gists, comments>>

\* boot.go:215-236, 305-308
TestBoot1 ==
    /\ bpc = "loop"
    /\ pending # <<>>
    /\ \E ok \in BOOLEAN :
         IF ok THEN BootStep("testBoot1", "createGist") ELSE BootFatal("testBoot1")
    /\ UNCHANGED <<rebuildVars, benv, labels, hosts, pending, inUse, released, gists, comments>>

\* boot.go:43-57, 310-313
CreateGist ==
    /\ bpc = "createGist"
    /\ \E ok \in BOOLEAN :
         IF ok
         THEN BootStep("createGist", "addComment") /\ gists' = Append(gists, Head(pending))
         ELSE BootFatal("createGist") /\ UNCHANGED gists
    /\ UNCHANGED <<rebuildVars, benv, labels, hosts, pending, inUse, released, comments>>

\* boot.go:208-213, 315-318
AddComment ==
    /\ bpc = "addComment"
    /\ \E ok \in BOOLEAN :
         IF ok
         THEN /\ BootStep("addComment", "loop")
              /\ comments' = Append(comments, Head(pending))
              /\ pending' = Tail(pending)
         ELSE BootFatal("addComment") /\ UNCHANGED <<comments, pending>>
    /\ UNCHANGED <<rebuildVars, benv, labels, hosts, inUse, released, gists>>

\* boot.go:198-201, 320-322
AddLabel ==
    /\ bpc = "loop"
    /\ pending = <<>>
    /\ \E ok \in BOOLEAN :
         IF ok
         THEN BootStep("addLabel", "removeLabel") /\ labels' = labels \cup { benv.setLabel }
         ELSE BootFatal("addLabel") /\ UNCHANGED labels
    /\ UNCHANGED <<rebuildVars, benv, hosts, pending, inUse, released, gists, comments>>

\* boot.go:203-206, 324-326
RemoveLabel ==
    /\ bpc = "removeLabel"
    /\ \E ok \in BOOLEAN :
         IF ok
         THEN BootStep("removeLabel", "return") /\ labels' = labels \ { benv.requireLabel }
         ELSE BootFatal("removeLabel") /\ UNCHANGED labels
    /\ UNCHANGED <<rebuildVars, benv, hosts, pending, inUse, released, gists, comments>>

\* main returns and the deferred function runs.  boot.go:127-142, 297-301, 327
ReleaseBakeries ==
    /\ bpc = "return"
    /\ released' = released + 1
    /\ \E ok \in BOOLEAN :
         IF ok
         THEN /\ bpc' = "exit"
              /\ bexit' = 0
              /\ blog' = Append(blog, Did("releaseBakeries", TRUE))
              /\ inUse' = FALSE
         ELSE BootFatal("releaseBakeries") /\ inUse' \in { inUse, FALSE }
    /\ UNCHANGED <<rebuildVars, benv, labels, hosts, pending, gists, comments>>

Boot ==
    \/ BootMain \/ EnsureLabel \/ UseBakeries \/ TestBoot1 \/ CreateGist
    \/ AddComment \/ AddLabel \/ RemoveLabel \/ ReleaseBakeries

----------------------------------------------------------------------------
Init == (InitFrom(Starts) \/ InitInDocker) /\ BootOff

----------------------------------------------------------------------------
Host ==
    \/ ParseFlags \/ CheckBuildDir \/ ReadSeries \/ Locate \/ FindPatches
    \/ FindKernel \/ FindLib \/ FindAddendum \/ CurrentUser \/ ReadUpstreamURL
    \/ WriteDockerfile \/ DockerBuild \/ DockerRun \/ DockerRunExit
    \/ CopyKernel \/ RemoveSymlinks \/ RemoveModules \/ CopyModules
    \/ RemoveDtbs \/ CopyDtbs

Driver ==
    \/ DriverMain \/ Download \/ Untar \/ StartPatches \/ ApplyPatch \/ Chdir
    \/ Defconfig \/ Mod2noconfig \/ AppendAddendum \/ Olddefconfig \/ Make
    \/ ModulesInstall \/ CopyImage \/ CopyDtb \/ CopyRpiDtb \/ MkdirOverlays
    \/ CopyOverlay \/ DriverDone

Next == Host \/ Driver

Spec == Init /\ [][Next]_vars

\* The host orchestrator is run again in the same staging directory, or
\* run there after the driver was run by hand with the staging directory as
\* its mount, after upstream-url.txt may have been edited and for any
\* target.
Rerun ==
    /\ hpc = "exit" \/ (hpc = "none" /\ dpc = "exit")
    /\ \E a \in RerunArchives, x \in { "", "arm64" } :
         /\ env' = [env EXCEPT !.archive = a, !.url = URLOf(a), !.inDocker = FALSE]
         /\ argv' = [argv EXCEPT !.cross = x]
    /\ allOk' = (allOk /\ hexit = 0)
    /\ last' = [ran |-> TRUE, ok |-> hexit = 0, url |-> env.url, archive |-> env.archive, cross |-> argv.cross]
    /\ dest0' = dest
    /\ hpc' = "flags"
    /\ patches' = <<>>
    /\ executable' = <<>>
    /\ execName' = ""
    /\ upstreamURL' = NoURL
    /\ dockerArgs' = <<>>
    /\ started' = [build |-> NoProgram, run |-> NoProgram]
    /\ hexit' = -1
    /\ hstatus' = 0
    /\ hlog' = <<>>
    /\ dpc' = "off"
    /\ dargs' = NoArgs
    /\ todo' = <<>>
    /\ remaining' = {}
    /\ queue' = <<>>
    /\ applied' = <<>>
    /\ srcdir' = <<>>
    /\ config' = <<>>
    /\ dops' = <<>>
    /\ copies' = {}
    /\ dexit' = -1
    /\ dstatus' = 0
    /\ dlog' = <<>>
    /\ UNCHANGED <<bootVars, dest, stage, image>>

\* The driver run by hand for the raspberrypi flavor, which the host
\* orchestrator cannot ask for.
RerunInDockerStarts ==
    { [archive |-> a, flaky |-> FALSE, addendum |-> NominalAddendum, ambient |-> NominalAmbient,
       args |-> [cross |-> "arm64", flavor |-> "raspberrypi", latest |-> URLOf(a)]] : a \in TagArchives }

InitRerun == (InitFrom(RerunStarts) \/ InitInDockerFrom(RerunInDockerStarts)) /\ BootOff

NextRerun == Next \/ Rerun

SpecRerun == InitRerun /\ [][NextRerun]_vars

\* gokr-boot alone: gokr-rebuild-kernel is not run.
InitBoot == InitFrom({ Start(NominalEnv, NominalArgv, NominalDest) }) /\ BootStart

NextBoot == Boot

SpecBoot == InitBoot /\ [][NextBoot]_vars

----------------------------------------------------------------------------
(* Properties.                                                            *)

IsPrefix(a, b) == Len(a) <= Len(b) /\ SubSeq(b, 1, Len(a)) = a

HostDid(step, ok) == \E i \in 1..Len(hlog) : hlog[i] = Did(step, ok)
DriverDid(step, ok) == \E i \in 1..Len(dlog) : dlog[i] = Did(step, ok)

Succeeded == hpc = "exit" /\ hexit = 0

ReconcileSteps == { "copyKernel", "removeSymlinks", "rmModules", "cpModules", "rmDtbs", "cpDtbs" }

\* The device-tree blobs a run for a target writes to the staging directory.
ProducedDtbs(cross) == IF cross = "arm64" THEN DOMAIN DtbTable ELSE {}

\* C1: after successful runs only, ../lib/modules holds no entry that the
\* most recent run did not install and ../ holds no .dtb file that the most
\* recent run did not produce.
C1_OnlyLatestRunAtDestination ==
    (Succeeded /\ allOk) =>
        /\ dest.mods \subseteq Installed(env.archive)
        /\ dest.dtbs \subseteq ProducedDtbs(argv.cross)

\* C2: in every state ../lib/modules is the complete old tree or the
\* complete new tree, and ../*.dtb the complete old set or the complete new
\* set.
C2_AtomicReplacement ==
    /\ \/ dest.modules = dest0.modules /\ dest.mods = dest0.mods
       \/ dest.modules /\ stage.modules /\ dest.mods = stage.mods
    /\ \/ dest.dtbs = dest0.dtbs
       \/ dest.dtbs = stage.dtbs

\* C2 as amended: the replacement is delete-then-copy.  ../lib/modules is
\* the complete old tree until rm -rf runs and the complete new tree once
\* cp -r has succeeded; in between, and where the orchestrator stops when
\* rm or cp fails, it is absent or part of the old or of the new tree.  The
\* same holds of ../*.dtb with rm and cp of the device-tree files.
C2_DeleteThenCopy ==
    /\ "rmModules" \notin HostSteps => dest.modules = dest0.modules /\ dest.mods = dest0.mods
    /\ HostDid("cpModules", TRUE) => dest.modules /\ dest.mods = stage.mods
    /\ dest.mods \subseteq dest0.mods \/ dest.mods \subseteq stage.mods
    /\ dest.mods # {} => dest.modules
    /\ "rmDtbs" \notin HostSteps => dest.dtbs = dest0.dtbs
    /\ HostDid("cpDtbs", TRUE) => dest.dtbs = stage.dtbs
    /\ dest.dtbs \subseteq dest0.dtbs \/ dest.dtbs \subseteq stage.dtbs

\* C2 witness: cp -r has put a new tree in the place of a different old one.
C2_Witness ==
    /\ HostDid("cpModules", TRUE)
    /\ dest.mods # dest0.mods
    /\ dest.mods # {}

\* C3: when the image build or the container run failed, or the driver
\* ended with a non-zero status, no reconciliation step ran and ../ is as
\* it was when the run started.
C3_NoReconciliationAfterFailure ==
    (dexit > 0 \/ HostDid("build", FALSE) \/ HostDid("run", FALSE)) =>
        /\ dest = dest0
        /\ HostSteps \cap ReconcileSteps = {}
        /\ hpc = "exit" => hexit # 0

\* C3 witness: the driver failed after it had written to the staging
\* directory, and the host has ended.
C3_Witness ==
    /\ dexit > 0
    /\ stage.mods # {}
    /\ hpc = "exit"

\* The stage of the driver's state machine a step belongs to: 1 Download,
\* 2 Unpack, 3 ApplyPatches, 4 Configure, 5 Compile, 6 InstallModules,
\* 7 ExtractArtifacts.
StageOf(step) ==
    CASE step = "syntax"   -> 0
      [] step = "download" -> 1
      [] step = "untar"    -> 2
      [] step \in { "patch", "chdir" } -> 3
      [] step \in { "defconfig", "mod2noconfig", "addendum", "olddefconfig" } -> 4
      [] step = "make"     -> 5
      [] step = "modules_install" -> 6
      [] OTHER             -> 7

\* C4: the driver's steps run stage by stage in the order Download, Unpack,
\* ApplyPatches, Configure, Compile, InstallModules, ExtractArtifacts: the
\* first step is of no later stage than Download, a step is of the same or
\* of the next stage as the step before it, it runs only when every step
\* before it succeeded, no step but patch and the copy of a device-tree
\* blob or of an overlay runs twice, and once a step has failed the driver
\* has ended with a non-zero status.
C4_StagesInOrder ==
    /\ dlog # <<>> => StageOf(dlog[1].step) <= 1
    /\ \A i \in 1..Len(dlog) - 1 :
         /\ dlog[i].ok
         /\ StageOf(dlog[i + 1].step) \in { StageOf(dlog[i].step), StageOf(dlog[i].step) + 1 }
    /\ \A i, j \in 1..Len(dlog) :
         (i < j /\ dlog[i].step = dlog[j].step) => dlog[i].step \in { "patch", "dtb", "overlay" }
    /\ (dlog # <<>> /\ ~dlog[Len(dlog)].ok) => dpc = "exit" /\ dexit # 0
    /\ dexit = 0 => \A i \in 1..Len(dlog) : dlog[i].ok

\* C4 witness: the compile command failed after Download, Unpack,
\* ApplyPatches and Configure had succeeded.
C4_Witness ==
    /\ DriverDid("make", FALSE)
    /\ DriverDid("olddefconfig", TRUE)
    /\ applied # <<>>
    /\ dexit = 1

\* C5: in a run of the host orchestrator the driver applies the patches in
\* the order the series file lists them, each listed entry once: what it
\* has applied is always the beginning of the listed sequence, and the
\* whole of it once ApplyPatches is over.
C5_PatchesInListedOrder ==
    hpc # "none" =>
        /\ dpc # "off" => IsPrefix(applied, patches)
        /\ DriverDid("chdir", TRUE) => applied = patches

\* C6 and C7: nothing of the image build or of the container run has
\* happened: no Dockerfile is written, no image built, no program started.
NothingBuilt ==
    /\ HostSteps \cap ({ "writeDockerfile", "build", "runStart", "run" } \cup ReconcileSteps) = {}
    /\ ~stage.dockerfile.written
    /\ ~image.built
    /\ started = [build |-> NoProgram, run |-> NoProgram]
    /\ dpc = "off"

\* One of the files a run needs is missing on the host.
RequiredFileMissing ==
    \/ ~env.hasSeries
    \/ \E i \in 1..Len(env.series) : env.series[i] \notin env.onHost
    \/ dest0.vmlinuz = NoFile
    \/ ~dest0.lib
    \/ ~env.hasAddendum
    \/ ~env.hasURL

\* C6: while the series file, a patch it lists, ../vmlinuz, ../lib,
\* config.addendum.txt or upstream-url.txt is missing, no Dockerfile is
\* written and no container build or run command is started, and when the
\* orchestrator has ended it has failed.
C6_MissingFileFailsBeforeBuild ==
    RequiredFileMissing => NothingBuilt /\ (hpc = "exit" => hexit # 0)

\* C6 witness: a listed patch is all that is missing, and the orchestrator
\* has failed on it.
C6_Witness ==
    /\ env.hasSeries /\ env.hasAddendum /\ env.hasURL /\ dest0.lib /\ dest0.vmlinuz # NoFile
    /\ \E i \in 1..Len(env.series) : env.series[i] \notin env.onHost
    /\ HostDid("findPatches", FALSE)
    /\ hpc = "exit"

\* The last component of a path given as a string: what follows the last
\* slash once trailing slashes are dropped.
RECURSIVE LastComponent(_)
LastComponent(s) ==
    IF s = <<>> THEN <<>>
    ELSE IF s[Len(s)] = "/" THEN LastComponent(SubSeq(s, 1, Len(s) - 1))
    ELSE LET cut == { i \in 1..Len(s) : s[i] = "/" }
             from == IF cut = {} THEN 1 ELSE (CHOOSE i \in cut : \A j \in cut : j <= i) + 1
         IN  SubSeq(s, from, Len(s))

IsBuildDir(dir) == LastComponent(dir) = <<"_", "b", "u", "i", "l", "d">>

\* C7: when the last component of the working directory is not _build the
\* orchestrator fails before it reads a manifest, writes a file or starts a
\* command; when it is _build the check of the working directory passes.
C7_RefusesOutsideBuildDir ==
    /\ ~IsBuildDir(env.cwd) =>
         /\ HostSteps \subseteq { "flags", "getwd" }
         /\ NothingBuilt
         /\ stage = EmptyStage /\ dest = dest0 /\ patches = <<>> /\ upstreamURL = NoURL
         /\ hpc \in { "flags", "getwd", "exit" }
         /\ hpc = "exit" => hexit # 0
    /\ IsBuildDir(env.cwd) => ~HostDid("getwd", FALSE)

\* C7 witness: the orchestrator has refused to run in /a/x_build.
C7_Witness ==
    /\ env.cwd = <<"/", "a", "/", "x", "_", "b", "u", "i", "l", "d">>
    /\ HostDid("getwd", FALSE)
    /\ hpc = "exit"

InPath(exe) == env.bin[exe] # "absent"

\* C8: with a non-empty override flag the orchestrator does not fail for
\* want of podman and docker in the search path.
C8_OverrideBypassesDetection ==
    (argv.overwrite # <<>> /\ ~InPath("podman") /\ ~InPath("docker")) =>
        ~HostDid("lookPath", FALSE)

\* The engine the locator is to prefer, when there is one.
FirstInPath == IF InPath("podman") THEN "podman" ELSE "docker"

\* The locator has run and no override replaces what it found.
Located == "lookPath" \in HostSteps /\ argv.overwrite = <<>>

\* C9: getContainerExecutable returns the resolved path of podman when
\* podman is in the search path, else that of docker when docker is, and
\* fails exactly when neither is.
C9_ErrorIffNoEngine ==
    Located =>
        /\ HostDid("lookPath", FALSE) <=> (~InPath("podman") /\ ~InPath("docker"))
        /\ InPath(FirstInPath) => executable = EvalSymlinks(env.bin, FirstInPath).path

\* C9 as amended: getContainerExecutable returns the resolved path of
\* podman when podman is in the search path, else that of docker when
\* docker is; it fails exactly when neither is in the search path or the
\* symbolic links of the first one found cannot be resolved (the other one
\* is not tried then).
C9_ErrorIffNoEngineOrUnresolvable ==
    Located =>
        /\ HostDid("lookPath", FALSE) <=>
              \/ ~InPath("podman") /\ ~InPath("docker")
              \/ env.bin[FirstInPath] = "broken"
        /\ HostDid("lookPath", TRUE) => executable = EvalSymlinks(env.bin, FirstInPath).path

\* C9 witness: with podman and docker both in the search path the locator
\* has returned podman.
C9_Witness ==
    /\ Located
    /\ env.bin.podman = "file" /\ env.bin.docker = "file"
    /\ executable = <<"usr", "bin", "podman">>

\* C10: after a successful run no entry named build or source is anywhere
\* under ../lib/modules.
C10_NoBuildOrSourceAnywhere ==
    Succeeded => \A p \in dest.mods : \A i \in 1..Len(p) : p[i] \notin { "build", "source" }

\* C10 as amended: after a successful run no entry named build or source is
\* directly under a release directory ../lib/modules/<release>/, which is
\* where modules_install puts these links; entries of these names deeper in
\* the tree are copied like any other.
C10_NoBuildOrSourceUnderRelease ==
    Succeeded =>
        /\ dest.modules
        /\ \A p \in dest.mods : Len(p) = 2 => p[2] \notin { "build", "source" }
        /\ \A p \in Installed(env.archive) :
             (Len(p) # 2 \/ p[2] \notin { "build", "source" }) => p \in dest.mods

\* C10 witness: a run has succeeded whose container installed build and
\* source links and a deeper entry named build.
C10_Witness ==
    /\ Succeeded
    /\ { <<"build">>, <<"source">>, <<"kernel", "build">> } \subseteq env.archive.shape

\* C11: once the kernel image is copied over ../vmlinuz, ../vmlinuz has the
\* permission bits it had before the copy.
C11_KeepsDestinationMode ==
    HostDid("copyKernel", TRUE) => dest.vmlinuz.mode = dest0.vmlinuz.mode

\* C11 as amended: once the kernel image is copied over ../vmlinuz,
\* ../vmlinuz has the content and the permission bits of the vmlinuz of the
\* staging directory, whatever permission bits it had before the copy.
C11_TakesSourceMode ==
    HostDid("copyKernel", TRUE) =>
        /\ dest.vmlinuz.data = stage.vmlinuz.data
        /\ dest.vmlinuz.mode = stage.vmlinuz.mode

\* C11 witness: the kernel image was copied over a ../vmlinuz with other
\* permission bits than the image's.
C11_Witness ==
    /\ HostDid("copyKernel", TRUE)
    /\ dest0.vmlinuz.mode = "0600"
    /\ stage.vmlinuz.mode = "0755"

\* The commands and the download a driver of the vanilla flavor starts for
\* a cross selector and a URL.
VanillaOps(cross, latest) ==
    LET dir == Srcdir("vanilla", latest)
    IN  { Get(latest),
          Exec(<<"tar", "xf">>, latest.file, <<>>, env.ambient),
          Exec(<<"patch", "-p1">>, <<>>, dir, env.ambient),
          Exec(DefconfigCmd("vanilla"), <<>>, dir, CrossEnv(cross)),
          Exec(<<"make", "mod2noconfig">>, <<>>, dir, CrossEnv(cross)),
          Exec(<<"make", "olddefconfig">>, <<>>, dir, CrossEnv(cross)),
          Exec(MakeCmd(cross), <<>>, dir, MakeEnv(cross)),
          Exec(ModulesInstallCmd, <<>>, dir, MakeEnv(cross)) }

\* C12: with an empty cross selector the driver does what a driver of the
\* vanilla flavor does for the same URL, whatever its flavor: it derives
\* the same source directory, starts the same commands with the same
\* arguments in the same directory, and makes the same copy.
C12_FlavorIrrelevantOnAmd64 ==
    (dargs.cross = "" /\ dargs.flavor \in { "vanilla", "raspberrypi" } /\ dpc \notin { "off", "main" }) =>
        /\ srcdir \in { <<>>, Srcdir("vanilla", dargs.latest) }
        /\ \A i \in 1..Len(dops) : dops[i] \in VanillaOps("", dargs.latest)
        /\ copies \subseteq { Copy("/tmp/buildresult/vmlinuz", "arch/x86/boot/bzImage") }

\* The driver ran for arm64 with the raspberrypi flavor and ended with
\* status 0.
RpiExtracted == dargs.cross = "arm64" /\ dargs.flavor = "raspberrypi" /\ dexit = 0

\* The overlays entries the raspberrypi flavor is to deliver: every .dtbo
\* and overlay_map.dtb.
OverlaysDue(archive) == { e \in archive.overlays : e[2] = "dtbo" } \cup { OverlayMap }

\* C13: after a successful run for arm64 with the raspberrypi flavor every
\* .dtb of the Broadcom directory is in the mount root under its own name
\* with its own content, overlays/ exists and holds every .dtbo of the
\* overlays directory and overlay_map.dtb, each with its own content, and
\* no file was copied to a name of the vanilla table from that name's
\* mapped source.
C13_RaspberrypiArtifacts ==
    RpiExtracted =>
        /\ stage.dtbs = env.archive.dtbs
        /\ \A n \in env.archive.dtbs :
             /\ stage.blob[n] = DtbData(env.archive, n)
             /\ Copy("/tmp/buildresult/" \o n, "arch/arm64/boot/dts/broadcom/" \o n) \in copies
        /\ stage.overlaysDir
        /\ DOMAIN stage.overlays = OverlaysDue(env.archive)
        /\ \A e \in OverlaysDue(env.archive) :
             /\ stage.overlays[e] = OverlayData(env.archive, e)
             /\ Copy("/tmp/buildresult/overlays/" \o EntryName(e),
                     "arch/arm64/boot/dts/overlays/" \o EntryName(e)) \in copies
        /\ \A d \in DOMAIN DtbTable :
             DtbTable[d] # d =>
                Copy("/tmp/buildresult/" \o d, "arch/arm64/boot/dts/broadcom/" \o DtbTable[d]) \notin copies

\* C13 witness: a successful raspberrypi run delivered overlays and, under
\* its own name, a blob whose name is a destination of the vanilla table.
C13_Witness ==
    /\ RpiExtracted
    /\ "bcm2710-rpi-3-b.dtb" \in stage.dtbs
    /\ OverlayMap \in DOMAIN stage.overlays
    /\ <<"vc4-kms-v3d", "dtbo">> \in DOMAIN stage.overlays

\* C14: with an empty cross selector ExtractArtifacts makes no copy but the
\* one from arch/x86/boot/bzImage to the mount's vmlinuz, which it has made
\* once the driver has ended with status 0 and the mount's vmlinuz is then
\* the built bzImage; it writes no device-tree blob and makes no overlays
\* directory.
C14_Amd64CopiesOnlyBzImage ==
    (dargs.cross = "" /\ dpc \notin { "off", "main" }) =>
        /\ copies \subseteq { Copy("/tmp/buildresult/vmlinuz", "arch/x86/boot/bzImage") }
        /\ Cardinality({ i \in 1..Len(dlog) : dlog[i].step = "image" }) <= 1
        /\ { "dtb", "mkdir", "overlay" } \cap { dlog[i].step : i \in 1..Len(dlog) } = {}
        /\ stage.dtbs = {} /\ stage.blob = OldBlob({})
        /\ ~stage.overlaysDir /\ stage.overlays = NoOverlays
        /\ dexit = 0 =>
             /\ copies = { Copy("/tmp/buildresult/vmlinuz", "arch/x86/boot/bzImage") }
             /\ DriverDid("image", TRUE)
             /\ stage.vmlinuz = BuiltKernel("", env.archive, env.kmode)

\* C14 witness: a driver with an empty cross selector has ended with status
\* 0 after it copied the bzImage.
C14_Witness ==
    /\ dargs.cross = ""
    /\ dexit = 0
    /\ stage.vmlinuz.data = "arch/x86/boot/bzImage 6.1"

\* The driver ran for arm64 with the vanilla flavor.
VanillaArm64 == dargs.cross = "arm64" /\ dargs.flavor = "vanilla"

\* C15: after a successful run for arm64 with the vanilla flavor the mount
\* holds as device-tree blobs exactly the eight destination names of the
\* table, each with the content of its mapped source, in whatever order the
\* table was gone through; and a run whose tree lacks a mapped source does
\* not end with status 0: once it has reached the table it ends with a
\* non-zero status.
C15_VanillaTable ==
    VanillaArm64 =>
        /\ dexit = 0 =>
             /\ stage.dtbs = DOMAIN DtbTable
             /\ Cardinality(stage.dtbs) = 8
             /\ \A d \in DOMAIN DtbTable :
                  /\ stage.blob[d] = DtbData(env.archive, DtbTable[d])
                  /\ Copy("/tmp/buildresult/" \o d,
                          "arch/arm64/boot/dts/broadcom/" \o DtbTable[d]) \in copies
             /\ Cardinality(copies) = 9
        /\ ~(DtbSources \subseteq env.archive.dtbs) =>
             /\ dexit # 0
             /\ (dpc = "exit" /\ DriverDid("image", TRUE)) => (dexit > 0 /\ DriverDid("dtb", FALSE))

\* C15 witness: a successful vanilla run for arm64 delivered the Zero 2
\* blob under its legacy name.
C15_Witness ==
    /\ VanillaArm64
    /\ dexit = 0
    /\ stage.blob["bcm2710-rpi-zero-2.dtb"] = <<"6.6", "bcm2837-rpi-zero-2-w.dtb">>

\* The driver's flags name a flavor other than vanilla and raspberrypi or a
\* cross selector other than the empty one and arm64.
UnknownSelector ==
    \/ dargs.flavor \notin { "vanilla", "raspberrypi" }
    \/ dargs.cross \notin { "", "arm64" }

\* C16: a driver started with an unknown flavor or cross selector downloads
\* nothing, starts no command, copies nothing and writes nothing to the
\* mount, and ends with a non-zero status.
C16_RejectsUnknownSelectors ==
    (dpc # "off" /\ UnknownSelector) =>
        /\ dpc \in { "main", "exit" }
        /\ dops = <<>> /\ copies = {}
        /\ stage = EmptyStage
        /\ dpc = "exit" => dexit > 0

AllOk(log) == \A i \in 1..Len(log) : log[i].ok

\* C17: a process that has ended has exit code 0 exactly when every step
\* it took succeeded, and when it failed on an external command its exit
\* code is that command's exit status; this holds of the host orchestrator
\* and of the driver.
C17_ExitCodeIsCommandStatus ==
    /\ hpc = "exit" =>
         /\ hexit = 0 <=> AllOk(hlog)
         /\ hstatus # 0 => hexit = hstatus
    /\ dpc = "exit" =>
         /\ dexit = 0 <=> AllOk(dlog)
         /\ dstatus # 0 => dexit = dstatus

\* C17 as amended: a process that has ended has exit code 0 exactly when
\* every step it took succeeded, and exit code 1 when a step failed,
\* whatever the exit status of the command it failed on; this holds of the
\* host orchestrator and of the driver.
C17_ExitCodeIsZeroOrOne ==
    /\ hpc = "exit" =>
         /\ hexit = 0 <=> AllOk(hlog)
         /\ hexit # 0 => hexit = 1
         /\ hstatus # 0 => hexit = 1
    /\ dpc = "exit" =>
         /\ dexit = 0 <=> AllOk(dlog)
         /\ dexit # 0 => dexit = 1
         /\ dstatus # 0 => dexit = 1

\* C17 witness: make ended with status 2 in the container and both
\* processes have ended.
C17_Witness ==
    /\ dpc = "exit" /\ hpc = "exit"
    /\ DriverDid("make", FALSE)
    /\ dstatus = 2
    /\ dexit = 1 /\ hexit = 1

\* How often a step is in a log.
Count(log, step) == Cardinality({ i \in 1..Len(log) : log[i].step = step })

\* The steps of a log that may be there more than once: one per patch, one
\* per device-tree blob, one per overlay.
LoopSteps == { "patch", "dtb", "overlay" }

\* How often a command or download is among the started ones.
Started(op) == Cardinality({ i \in 1..Len(dops) : dops[i] = op })

\* C18: within one run no step is taken twice: the host starts the image
\* build, the container run and each reconciliation command at most once,
\* the driver starts the download, tar, each make command at most once and
\* patch at most once per patch file, no patch is applied twice, and a step
\* that failed is the last step of its process, which has then ended with a
\* non-zero status; after a failure in the container the host takes no
\* step but to end.
C18_NoRetry ==
    /\ \A i \in 1..Len(hlog) : Count(hlog, hlog[i].step) = 1
    /\ \A i \in 1..Len(dlog) : dlog[i].step \notin LoopSteps => Count(dlog, dlog[i].step) = 1
    /\ \A i \in 1..Len(dops) : dops[i].argv # <<"patch", "-p1">> => Started(dops[i]) = 1
    /\ Count(dlog, "patch") <= Cardinality(image.files)
    /\ Started(Exec(<<"patch", "-p1">>, <<>>, srcdir, env.ambient)) = Count(dlog, "patch")
    /\ \A i, j \in 1..Len(applied) : i # j => applied[i] # applied[j]
    /\ \A i \in 1..Len(hlog) : ~hlog[i].ok => (i = Len(hlog) /\ hpc = "exit" /\ hexit > 0)
    /\ \A i \in 1..Len(dlog) : ~dlog[i].ok => (i = Len(dlog) /\ dpc = "exit" /\ dexit > 0)
    /\ (dexit > 0 /\ hpc # "none") => (hpc \in { "wait", "exit" } /\ hlog[Len(hlog)].step \in { "runStart", "run" })

\* C18 witness: the second patch failed once, and both processes have ended.
C18_Witness ==
    /\ Len(applied) = 1
    /\ DriverDid("patch", FALSE)
    /\ Count(dlog, "patch") = 2
    /\ dpc = "exit" /\ hpc = "exit" /\ hexit = 1

\* The container process is running.
ContainerRunning == dpc \notin { "off", "exit" }

\* Where the host orchestrator is while it reads or changes the artifacts
\* of the staging directory.
ReconcilePcs == { "copy", "symlinks", "rmModules", "cpModules", "rmDtbs", "cpDtbs" }

\* C19: while the container process runs, the host orchestrator that
\* started it waits for the run command and has neither read nor changed
\* vmlinuz, lib/modules or *.dtb of the staging directory in this run; it
\* is at a reconciliation step, or has taken one, only when the container
\* process has exited and the run command has returned.
C19_HostWaitsForContainer ==
    /\ (ContainerRunning /\ hpc # "none") =>
         /\ hpc = "wait"
         /\ HostSteps \cap ReconcileSteps = {}
    /\ (hpc \in ReconcilePcs \/ HostSteps \cap ReconcileSteps # {}) =>
         /\ dpc = "exit"
         /\ HostDid("run", TRUE)

\* C19 witness: the container process is writing device-tree blobs to the
\* staging directory while the host waits.
C19_Witness ==
    /\ hpc = "wait"
    /\ dpc = "dtbs"
    /\ stage.dtbs # {} /\ remaining # {}

\* This run succeeded, and so did the run before it in this staging
\* directory, which was for the same upstream URL and archive and the same
\* target (series and addendum are the same in all runs).
SucceededTwice ==
    /\ Succeeded
    /\ last.ran /\ last.ok
    /\ last.url = env.url /\ last.archive = env.archive /\ last.cross = argv.cross

\* C20: when the pipeline has succeeded twice in succession with the same
\* inputs, ../lib/modules and the device-tree blobs of ../ are after the
\* second run what they were after the first: the same entries and the same
\* content.
C20_SecondRunChangesNothing ==
    SucceededTwice =>
        /\ dest.modules = dest0.modules /\ dest.mods = dest0.mods
        /\ dest.dtbs = dest0.dtbs /\ dest.blob = dest0.blob

\* C20 witness: the pipeline has succeeded twice in succession for arm64
\* with the same inputs, in a staging directory that still holds the
\* modules of an earlier run of another release.
C20_Witness ==
    /\ SucceededTwice
    /\ argv.cross = "arm64"
    /\ dest.dtbs = DOMAIN DtbTable
    /\ \E p \in stage.mods : p[1] # env.archive.release

\* The targets of the build matrix: amd64, arm64/vanilla, arm64/raspberrypi.
ValidTarget ==
    \/ dargs.cross = "" /\ dargs.flavor = "vanilla"
    \/ dargs.cross = "arm64" /\ dargs.flavor \in { "vanilla", "raspberrypi" }

\* The symbols a configuration file assigns.
SymbolsOf(file) == { file[i].sym : i \in DOMAIN file }

\* No prompt is left: the file has one line for each symbol of the tree.
NoPrompt(file) ==
    \A sym \in Range(KconfigSymbols) : Cardinality({ i \in DOMAIN file : file[i].sym = sym }) = 1

Applicable(file, addendum) ==
    { sym \in SymbolsOf(addendum) \cap Range(KconfigSymbols) :
        sym \in DOMAIN KconfigDepends => LastValue(file, KconfigDepends[sym]) # "n" }

After(a, b) ==
    \A j \in 1..Len(dlog) : dlog[j].step = b => \E i \in 1..(j - 1) : dlog[i] = Did(a, TRUE)

\* The passes of the Configure stage and the compile command, in order.
ConfigurePasses == <<"defconfig", "mod2noconfig", "addendum", "olddefconfig", "make">>

\* .config as the minimized base configuration of the run's flavor.
MinimizedBase == Mod2no(DefconfigOutput(DefconfigCmd(dargs.flavor)))

\* C22: the Configure stage runs base defconfig, mod2noconfig, the append
\* of the addendum and olddefconfig in this order, each at most once and
\* each only after the one before succeeded; when olddefconfig starts,
\* .config is the minimized base configuration followed by the addendum
\* verbatim, once; the compile command starts only after olddefconfig
\* succeeded.
C22_ConfigurePassesInOrder ==
    /\ \A k \in 1..(Len(ConfigurePasses) - 1) : After(ConfigurePasses[k], ConfigurePasses[k + 1])
    /\ \A k \in DOMAIN ConfigurePasses : Count(dlog, ConfigurePasses[k]) <= 1
    /\ dpc = "addendum" => config = MinimizedBase
    /\ dpc = "olddefconfig" => config = MinimizedBase \o image.addendum
    /\ DriverDid("olddefconfig", TRUE) => config = Normalised(MinimizedBase \o image.addendum)
    /\ \A i \in 1..Len(dops) :
          dops[i].argv = MakeCmd(dargs.cross) =>
              \E j \in 1..(i - 1) : dops[j].argv = <<"make", "olddefconfig">>

\* C22 witness: the compile command has started after all four passes, with
\* an addendum that changed the configuration.
C22_Witness ==
    /\ \E i \in 1..Len(dops) : dops[i].argv = MakeCmd(dargs.cross)
    /\ \A k \in 1..4 : DriverDid(ConfigurePasses[k], TRUE)
    /\ image.addendum # <<>>
    /\ config # Normalised(MinimizedBase)

\* What the driver has written to its mount, the staging directory.
Mounted(dir) == [dir EXCEPT !.dockerfile = EmptyStage.dockerfile]

\* The steps of the Configure stage and of the stages after it.
LaterSteps ==
    { "chdir", "defconfig", "mod2noconfig", "addendum", "olddefconfig", "make",
      "modules_install", "image", "dtb", "mkdir", "overlay" }

\* C23: once the application of a patch has failed, the driver has ended
\* with a non-zero status and that failure is its last step; it has applied
\* no patch after it, taken no step of Configure or of a later stage,
\* started no command after the failing patch command, and written nothing
\* to the mounted output directory.
C23_FailedPatchAborts ==
    DriverDid("patch", FALSE) =>
        /\ dpc = "exit" /\ dexit # 0
        /\ dlog[Len(dlog)] = Did("patch", FALSE)
        /\ Count(dlog, "patch") = Len(applied) + 1
        /\ { dlog[i].step : i \in 1..Len(dlog) } \cap LaterSteps = {}
        /\ dops[Len(dops)].argv = <<"patch", "-p1">>
        /\ config = <<>>
        /\ copies = {}
        /\ Mounted(stage) = EmptyStage

\* C23 witness: the second patch of a series failed after the first was
\* applied, and the host that started the container has ended.
C23_Witness ==
    /\ DriverDid("patch", FALSE)
    /\ Len(applied) = 1
    /\ todo # <<>>
    /\ hpc = "exit"

\* The driver's compile and modules_install commands among those started.
CompileOps == { i \in 1..Len(dops) : dops[i].op = "exec" /\ "modules" \in Range(dops[i].argv) }
InstallOps == { i \in 1..Len(dops) : dops[i].op = "exec" /\ "modules_install" \in Range(dops[i].argv) }

\* Whether a command runs with the pinned build variables.
Pinned(op) ==
    /\ { "KBUILD_BUILD_USER", "KBUILD_BUILD_HOST", "KBUILD_BUILD_TIMESTAMP" } \subseteq DOMAIN op.env
    /\ op.env["KBUILD_BUILD_USER"] = "gokrazy"
    /\ op.env["KBUILD_BUILD_HOST"] = "docker"
    /\ op.env["KBUILD_BUILD_TIMESTAMP"] = "Wed Mar  1 20:57:29 UTC 2017"

\* C24: the compile command is make bzImage modules exactly when the cross
\* selector is not arm64 and make Image.gz dtbs modules exactly when it is,
\* and the compile command and the modules_install command run with
\* KBUILD_BUILD_USER, KBUILD_BUILD_HOST and KBUILD_BUILD_TIMESTAMP at their
\* fixed values whatever the environment of the container holds.
C24_MakeTargetsAndPinnedEnv ==
    /\ \A i \in CompileOps :
          /\ dargs.cross # "arm64" <=> dops[i].argv = <<"make", "bzImage", "modules", "-jN">>
          /\ dargs.cross = "arm64" <=> dops[i].argv = <<"make", "Image.gz", "dtbs", "modules", "-jN">>
          /\ Pinned(dops[i])
    /\ \A i \in InstallOps : Pinned(dops[i])
    /\ (DriverDid("make", TRUE) \/ DriverDid("make", FALSE)) => Cardinality(CompileOps) = 1
    /\ (DriverDid("modules_install", TRUE) \/ DriverDid("modules_install", FALSE)) =>
          Cardinality(InstallOps) = 1

\* C24 witness: an arm64 build has compiled and installed its modules in a
\* container whose environment set KBUILD_BUILD_USER and
\* KBUILD_BUILD_TIMESTAMP to other values.
C24_Witness ==
    /\ dargs.cross = "arm64"
    /\ DriverDid("modules_install", TRUE)
    /\ "KBUILD_BUILD_USER" \in DOMAIN env.ambient
    /\ env.ambient["KBUILD_BUILD_USER"] = "root"

\* The container executable in use: the override when one is given, else
\* what detection found.
EngineInUse ==
    IF argv.overwrite # <<>> THEN argv.overwrite ELSE GetContainerExecutable(env.bin).path

\* The host has put the run command together.
RunCommandBuilt == "runStart" \in HostSteps \/ "run" \in HostSteps

\* C25: the run command asks for platform linux/amd64 whatever the cross
\* selector, carries --rm exactly when keep_build_container is false, and
\* carries --userns=keep-id exactly when the base name of the detected or
\* overriding executable is podman.
C25_RunCommandFlags ==
    RunCommandBuilt =>
        /\ dockerArgs.platform = "linux/amd64"
        /\ dockerArgs.rm <=> ~argv.keep
        /\ dockerArgs.userns \in { "", "keep-id" }
        /\ dockerArgs.userns = "keep-id" <=> EngineInUse[Len(EngineInUse)] = "podman"
        /\ dockerArgs.cross = argv.cross

\* C25 witness: an arm64 run that keeps its container was started with a
\* docker named by path on a host whose detected engine is podman.
C25_Witness ==
    /\ "runStart" \in HostSteps
    /\ argv.cross = "arm64"
    /\ argv.keep
    /\ argv.overwrite = <<"usr", "bin", "docker">>
    /\ GetContainerExecutable(env.bin).path = <<"usr", "bin", "podman">>
    /\ dockerArgs.userns = ""
    /\ ~dockerArgs.rm

\* C26: in a run of the host orchestrator, once ApplyPatches is over the
\* driver has applied every patch the series lists and no other file, each
\* once.
C26_AppliedIsSeries ==
    (hpc # "none" /\ "chdir" \in { dlog[i].step : i \in 1..Len(dlog) }) =>
        /\ Range(applied) = Range(patches)
        /\ Cardinality(Range(applied)) = Len(applied)

\* The flavor of the Build Target Key a staging directory is for: that of
\* the tree its upstream URL names.
FlavorOf(archive) == IF archive.origin = "github" THEN "raspberrypi" ELSE "vanilla"

\* C27: the driver the host starts for a staging directory runs with the
\* architecture selected on the host and with the flavor of the directory's
\* tree, for each of amd64, arm64/vanilla and arm64/raspberrypi.
C27_HostBuildsEveryTarget ==
    (hpc # "none" /\ dpc # "off" /\ argv.cross \in { "", "arm64" } /\ env.url = URLOf(env.archive)) =>
        /\ dargs.cross = argv.cross
        /\ argv.cross = "arm64" => dargs.flavor = FlavorOf(env.archive)

\* C28: once the host has started the image build and the container run,
\* the program it started for build is the file it started for run.
C28_SameExecutableForBuildAndRun ==
    (started.build # NoProgram /\ started.run # NoProgram) => started.build = started.run

\* C29: an amd64 run in which no command fails for a reason of its own and
\* the image build, the container run, the copy of the kernel image and the
\* replacement of the modules succeeded ends with exit status 0, whether or
\* not a *.dtb file is in the staging directory or next to the kernel image.
C29_Amd64SucceedsWithoutDtbs ==
    ( /\ hpc = "exit"
      /\ argv.cross = ""
      /\ ~env.flaky
      /\ \A step \in { "build", "run", "copyKernel", "removeSymlinks", "rmModules", "cpModules" } :
            HostDid(step, TRUE) )
    => hexit = 0

BootDid(step, ok) == \E i \in 1..Len(blog) : blog[i] = Did(step, ok)

\* C30: when gokr-boot has ended after useBakeries succeeded, it has called
\* releaseBakeries, whatever step it ended on; and once it has added the
\* set_label or removed the require_label, every host's boot test, gist and
\* comment succeeded before.
C30_ReleasesBakeriesAndLabelsLast ==
    /\ (bpc = "exit" /\ BootDid("useBakeries", TRUE)) => released >= 1
    /\ (BootDid("addLabel", TRUE) \/ BootDid("removeLabel", TRUE)) =>
          /\ gists = hosts
          /\ comments = hosts
          /\ Count(blog, "testBoot1") = Len(hosts)
          /\ \A i \in 1..Len(blog) :
                blog[i].step \in { "testBoot1", "createGist", "addComment" } => blog[i].ok
    /\ BootDid("removeLabel", TRUE) => BootDid("addLabel", TRUE)

====
